---- MODULE Spec2Model ----
(***************************************************************************)
(* Model of the workflow generator: the pydantic data model of             *)
(* workflow_schema.py (ParameterDefinition, StepDefinition,                *)
(* WorkflowSchema with its validators and get_execution_order), the        *)
(* WorkflowManager of workflow_manager.py (the registry, the keyword       *)
(* classifier, create_workflow_from_tasks, the calls that look an id up    *)
(* and deploy_workflow with its four writes) and the WorkflowGenerator of  *)
(* workflow_generator.py (what its templates render from a graph and the   *)
(* schema file it dumps) and the session store of live_server.py           *)
(* (execute_step with its await, get_session).                             *)
(*                                                                         *)
(* Python strings that the code computes with (descriptions, step ids,     *)
(* handler names) are sequences of one-character strings; enum members     *)
(* and fixed literals are TLA+ strings.  Optional values are records       *)
(* None / Some(v).                                                         *)
(***************************************************************************)
EXTENDS Integers, Sequences, FiniteSets, TLC

VARIABLES
    draft,               \* the List[StepDefinition] a caller is assembling
    schema,              \* the WorkflowSchema built from it (None until built)
    construct_result,    \* outcome of the last WorkflowSchema(...) call
    order_result,        \* outcome of the last get_execution_order() call
    param_args,          \* keyword arguments of the last ParameterDefinition(...)
    param_result,        \* outcome of the last ParameterDefinition(...) call
    workflows_registry,  \* WorkflowManager.workflows_registry
    create_result,       \* outcome of the last create_workflow_from_tasks call
    classified,          \* the last classification: description, ids registered
                         \* at the time, result
    first_classified,    \* the first classification, likewise
    first_order,         \* the first get_execution_order() call on the current
                         \* graph: the graph before it, its result, calls so far
    hash_seed,           \* the string-hash seed of the running interpreter
    files_result,        \* outcome of the last generate_workflow_files call
    first_files,         \* the first successful generation, likewise
    roundtrip_result,    \* outcome of the last dump / parse / construct round trip
    lookup_result,       \* outcome of the last manager call that looks an id up
    persisted,           \* the files deploy_workflow has written, by path
    deploying,           \* per thread: the deploy_workflow call it is inside
    execution_sessions,  \* live_server.execution_sessions
    now,                 \* what time.time() returns, in whole seconds
    handling,            \* per caller: the execute_step call suspended at its await
    response,            \* per caller: the last response it was sent
    placed,              \* every execute-step request so far: its caller, whether
                         \* it left session_id out, the session it was placed in
    succeeded,           \* the successful step executions so far, in order
    created_by           \* per session: the workflow_id of the request that made it

vars == <<draft, schema, construct_result, order_result, param_args,
          param_result, workflows_registry, create_result, classified,
          first_classified, first_order, hash_seed, files_result, first_files,
          roundtrip_result, lookup_result, persisted, deploying,
          execution_sessions, now, handling, response, placed, succeeded,
          created_by>>

graphVars == <<draft, schema, construct_result, order_result, first_order>>
paramVars == <<param_args, param_result>>
managerVars == <<workflows_registry, create_result, classified, first_classified>>
generatorVars == <<hash_seed, files_result, first_files, roundtrip_result>>
deployVars == <<lookup_result, persisted, deploying>>
serverVars == <<execution_sessions, now, handling, response, placed, succeeded,
                created_by>>

----------------------------------------------------------------------------
(* Optional values and small helpers *)

None == [some |-> FALSE]
Some(v) == [some |-> TRUE, val |-> v]

Range(s) == {s[i] : i \in 1..Len(s)}

\* Python truthiness of an Optional[List]: None and [] are falsy
Truthy(opt) == opt.some /\ Len(opt.val) > 0

\* Python `x or []` for an Optional[List]
OrEmpty(opt) == IF Truthy(opt) THEN opt.val ELSE <<>>

RECURSIVE SeqSum(_)
SeqSum(s) == IF s = <<>> THEN 0 ELSE Head(s) + SeqSum(Tail(s))

----------------------------------------------------------------------------
(* Bounds of the model *)

\* steps plus depends_on entries of a graph assembled by hand
MaxGraphSize == 5

\* step ids a caller may use when assembling a graph by hand
StepIds == {<<"a">>, <<"b">>, <<"c">>}

\* the seeds the interpreter may draw for its string hash at start-up
HashSeeds == {0, 1}

\* the callers of the live server
Callers == {"c1", "c2"}

\* the threads that call deploy_workflow
Threads == {"t1", "t2"}

----------------------------------------------------------------------------
(* Python str operations on sequences of characters *)

LowerAlpha == <<"a", "b", "c", "d", "e", "f", "g", "h", "i", "j", "k", "l", "m",
                "n", "o", "p", "q", "r", "s", "t", "u", "v", "w", "x", "y", "z">>
UpperAlpha == <<"A", "B", "C", "D", "E", "F", "G", "H", "I", "J", "K", "L", "M",
                "N", "O", "P", "Q", "R", "S", "T", "U", "V", "W", "X", "Y", "Z">>
Digits == <<"0", "1", "2", "3", "4", "5", "6", "7", "8", "9">>

\* the case mappings of str.lower() and str.upper() on the ASCII letters
LowerOf == [ch \in Range(UpperAlpha) |->
               LowerAlpha[CHOOSE i \in 1..Len(UpperAlpha) : UpperAlpha[i] = ch]]
UpperOf == [ch \in Range(LowerAlpha) |->
               UpperAlpha[CHOOSE i \in 1..Len(LowerAlpha) : LowerAlpha[i] = ch]]

IsLetter(ch) == ch \in DOMAIN LowerOf \/ ch \in DOMAIN UpperOf

LowerChar(ch) == IF ch \in DOMAIN LowerOf THEN LowerOf[ch] ELSE ch

UpperChar(ch) == IF ch \in DOMAIN UpperOf THEN UpperOf[ch] ELSE ch

\* str.lower()
Lower(s) == [i \in 1..Len(s) |-> LowerChar(s[i])]

\* str.title(): a letter that follows a non-letter is upper-cased, any other lower-cased
Title(s) ==
    [i \in 1..Len(s) |->
        IF i = 1 \/ ~IsLetter(s[i - 1]) THEN UpperChar(s[i]) ELSE LowerChar(s[i])]

\* str.replace(old, new) for single characters
ReplaceChar(s, old, new) == [i \in 1..Len(s) |-> IF s[i] = old THEN new ELSE s[i]]

\* the `in` operator on strings: kw occurs in s as a substring
Contains(s, kw) ==
    \E i \in 1..(Len(s) - Len(kw) + 1) : SubSeq(s, i, i + Len(kw) - 1) = kw

\* any(keyword in s for keyword in keywords)
AnyKeyword(s, keywords) == \E k \in 1..Len(keywords) : Contains(s, keywords[k])

\* str.split(): the maximal runs of non-blank characters
RECURSIVE SplitBlank(_, _, _)
SplitBlank(s, word, acc) ==
    IF s = <<>>
    THEN IF word = <<>> THEN acc ELSE Append(acc, word)
    ELSE IF Head(s) = " "
         THEN SplitBlank(Tail(s), <<>>, IF word = <<>> THEN acc ELSE Append(acc, word))
         ELSE SplitBlank(Tail(s), Append(word, Head(s)), acc)

\* str.split(sep) for a one-character separator: empty pieces are kept
RECURSIVE SplitOn(_, _, _, _)
SplitOn(s, sep, word, acc) ==
    IF s = <<>> THEN Append(acc, word)
    ELSE IF Head(s) = sep
         THEN SplitOn(Tail(s), sep, <<>>, Append(acc, word))
         ELSE SplitOn(Tail(s), sep, Append(word, Head(s)), acc)

\* sep.join(words)
RECURSIVE Join(_, _)
Join(sep, words) ==
    IF words = <<>> THEN <<>>
    ELSE IF Len(words) = 1 THEN words[1]
    ELSE words[1] \o sep \o Join(sep, Tail(words))

\* str(n) for an int
RECURSIVE NatToStr(_)
NatToStr(n) == IF n < 10 THEN <<Digits[n + 1]>> ELSE Append(NatToStr(n \div 10), Digits[(n % 10) + 1])

IntToStr(n) == IF n < 0 THEN <<"-">> \o NatToStr(0 - n) ELSE NatToStr(n)

----------------------------------------------------------------------------
(* Python values held by a field declared Any: the type and the content.   *)
(* A str holds its text, an int its decimal digits, a tuple, list or set   *)
(* the sequence of its items (each a str).                                 *)

PyStr(text) == [py |-> "str", val |-> text]
PyInt(digits) == [py |-> "int", val |-> digits]
PyTuple(items) == [py |-> "tuple", val |-> items]
PyList(items) == [py |-> "list", val |-> items]
PySet(items) == [py |-> "set", val |-> items]

\* bool(value)
PyTruthy(value) ==
    CASE value.py = "str" -> value.val # ""
      [] value.py = "int" -> value.val # "0"
      [] OTHER -> value.val # <<>>

----------------------------------------------------------------------------
(* workflow_schema.py: ParameterDefinition *)

ParameterFields ==
    {"name", "type", "label", "description", "required", "default", "options",
     "validation", "placeholder", "help_text", "depends_on"}

\* the declared defaults of the optional fields
ParameterDefaults ==
    [label |-> None, description |-> None, required |-> FALSE, default |-> None,
     options |-> None, validation |-> None, placeholder |-> None,
     help_text |-> None, depends_on |-> None]

\* @validator('options'): v is the supplied value, values the fields validated before it
validate_options(v, values) ==
    IF values.type \in {"select", "multiselect"} /\ ~Truthy(v)
    THEN [ok |-> FALSE, error |-> "Options required"]
    ELSE [ok |-> TRUE, value |-> v]

\* ParameterDefinition(**kwargs): kwargs is a record of the supplied keyword
\* arguments.  The validator is declared without always=True, so pydantic runs
\* it only when `options` is among the supplied arguments; an omitted field
\* takes its default unvalidated.
ParameterDefinition(kwargs) ==
    LET checked == IF "options" \in DOMAIN kwargs
                   THEN validate_options(kwargs.options, kwargs)
                   ELSE [ok |-> TRUE, value |-> ParameterDefaults.options]
    IN  IF checked.ok
        THEN [ok |-> TRUE,
              value |-> [f \in ParameterFields |->
                            IF f = "options" THEN checked.value
                            ELSE IF f \in DOMAIN kwargs THEN kwargs[f]
                            ELSE ParameterDefaults[f]]]
        ELSE checked

\* LLMConfiguration(...): no validators; the fields the manager supplies
LLMConfiguration(user_prompt_template, template_variables, response_format) ==
    [user_prompt_template |-> user_prompt_template,
     template_variables |-> template_variables,
     response_format |-> response_format]

----------------------------------------------------------------------------
(* workflow_schema.py: StepDefinition and WorkflowSchema *)

StepDefinition(id, name, type, description, depends_on, parameters, llm_config, custom_handler) ==
    [id |-> id, name |-> name, type |-> type, description |-> description,
     depends_on |-> depends_on, parameters |-> parameters,
     llm_config |-> llm_config, custom_handler |-> custom_handler]

\* the set comprehension {step.id for step in v}
StepIdSet(steps) == {steps[i].id : i \in 1..Len(steps)}

\* first (step, dep) in iteration order whose dep is not a step id, or None
RECURSIVE FirstMissingDep(_, _, _, _)
FirstMissingDep(steps, step_ids, i, j) ==
    IF i > Len(steps) THEN None
    ELSE IF ~Truthy(steps[i].depends_on) \/ j > Len(steps[i].depends_on.val)
         THEN FirstMissingDep(steps, step_ids, i + 1, 1)
    ELSE IF steps[i].depends_on.val[j] \notin step_ids
         THEN Some([step |-> steps[i].id, dep |-> steps[i].depends_on.val[j]])
    ELSE FirstMissingDep(steps, step_ids, i, j + 1)

\* a validator that looks at the first entry of each depends_on list only
ValidateFirstEntryOnly(v) ==
    LET firsts == [i \in 1..Len(v) |->
                      IF Truthy(v[i].depends_on)
                      THEN [v[i] EXCEPT !.depends_on = Some(<<v[i].depends_on.val[1]>>)]
                      ELSE v[i]]
        missing == FirstMissingDep(firsts, StepIdSet(v), 1, 1)
    IN  IF missing.some
        THEN [ok |-> FALSE, error |-> "non-existent step",
              step |-> missing.val.step, dep |-> missing.val.dep]
        ELSE [ok |-> TRUE, value |-> v]

\* @validator('steps'): raises ValueError or returns the list unchanged
validate_step_dependencies(v) ==
    LET missing == FirstMissingDep(v, StepIdSet(v), 1, 1)
    IN  IF missing.some
        THEN [ok |-> FALSE, error |-> "non-existent step",
              step |-> missing.val.step, dep |-> missing.val.dep]
        ELSE [ok |-> TRUE, value |-> v]

\* WorkflowSchema(metadata=..., steps=...): the only validator is the one above
WorkflowSchema(metadata, steps) ==
    LET checked == validate_step_dependencies(steps)
    IN  IF checked.ok
        THEN [ok |-> TRUE, value |-> [metadata |-> metadata, steps |-> checked.value]]
        ELSE checked

\* keys of the dict {step.id: ... for step in self.steps}, in insertion order
RECURSIVE DictKeys(_)
DictKeys(steps) ==
    IF steps = <<>> THEN <<>>
    ELSE LET front == SubSeq(steps, 1, Len(steps) - 1)
             keys == DictKeys(front)
             last == steps[Len(steps)].id
         IN  IF last \in Range(keys) THEN keys ELSE Append(keys, last)

\* the dict itself: a later step with the same id overwrites the value
StepGraph(steps) ==
    [id \in StepIdSet(steps) |->
        LET last == CHOOSE i \in 1..Len(steps) :
                        /\ steps[i].id = id
                        /\ \A k \in (i + 1)..Len(steps) : steps[k].id # id
        IN  OrEmpty(steps[last].depends_on)]

\* a comprehension that stops at the first ready step
ReadyStepsOneAtATime(keys, step_graph, processed) ==
    LET ready == SelectSeq(keys, LAMBDA step_id :
                     /\ step_id \notin processed
                     /\ \A k \in 1..Len(step_graph[step_id]) :
                            step_graph[step_id][k] \in processed)
    IN  IF ready = <<>> THEN <<>> ELSE <<Head(ready)>>

\* a comprehension that lists the ready steps from the last key to the first
ReadyStepsNewestFirst(keys, step_graph, processed) ==
    LET ready == SelectSeq(keys, LAMBDA step_id :
                     /\ step_id \notin processed
                     /\ \A k \in 1..Len(step_graph[step_id]) :
                            step_graph[step_id][k] \in processed)
    IN  [i \in 1..Len(ready) |-> ready[Len(ready) + 1 - i]]

\* the list comprehension of lines 177-180
ReadySteps(keys, step_graph, processed) ==
    SelectSeq(keys, LAMBDA step_id :
        /\ step_id \notin processed
        /\ \A k \in 1..Len(step_graph[step_id]) : step_graph[step_id][k] \in processed)

\* the while loop of lines 176-187
RECURSIVE OrderLoop(_, _, _, _, _)
OrderLoop(n_steps, keys, step_graph, execution_order, processed) ==
    IF ~(Cardinality(processed) < n_steps)
    THEN [status |-> "waves", waves |-> execution_order]
    ELSE LET ready_steps == ReadySteps(keys, step_graph, processed)
         IN  IF ready_steps = <<>>
             THEN [status |-> "error", error |-> "Circular dependency",
                   remaining |-> Range(keys) \ processed]
             ELSE OrderLoop(n_steps, keys, step_graph,
                            Append(execution_order, ready_steps),
                            processed \cup Range(ready_steps))

get_execution_order(self) ==
    OrderLoop(Len(self.steps), DictKeys(self.steps), StepGraph(self.steps), <<>>, {})

\* a call that empties the depends_on lists it has resolved
CallConsumingDependencies(self) ==
    [returned |-> get_execution_order(self),
     self |-> [self EXCEPT !.steps =
                  [i \in 1..Len(self.steps) |->
                      [self.steps[i] EXCEPT !.depends_on =
                          IF @.some THEN Some(<<>>) ELSE @]]]]

\* a call workflow.get_execution_order(): what it returns or raises, and the
\* receiver after it.  The method binds step_graph, execution_order, processed
\* and ready_steps to fresh objects, assigns to no attribute of self and calls
\* no mutating method on self.steps or on a depends_on list.
CallGetExecutionOrder(self) ==
    [returned |-> get_execution_order(self), self |-> self]

----------------------------------------------------------------------------
(* workflow_manager.py: the classifier _infer_step_configuration *)

llm_keywords ==
    <<<<"a", "i">>,
      <<"g", "e", "n", "e", "r", "a", "t", "e">>,
      <<"a", "n", "a", "l", "y", "s", "i", "s">>,
      <<"a", "n", "a", "l", "y", "z", "e">>,
      <<"p", "r", "o", "c", "e", "s", "s">>,
      <<"l", "l", "m">>,
      <<"g", "p", "t">>,
      <<"c", "l", "a", "u", "d", "e">>,
      <<"c", "r", "e", "a", "t", "e">>,
      <<"w", "r", "i", "t", "e">>>>

input_keywords ==
    <<<<"i", "n", "p", "u", "t">>,
      <<"u", "p", "l", "o", "a", "d">>,
      <<"f", "i", "l", "e">>,
      <<"d", "a", "t", "a">>,
      <<"s", "c", "h", "e", "m", "a">>>>

execution_keywords ==
    <<<<"e", "x", "e", "c", "u", "t", "e">>,
      <<"r", "u", "n">>,
      <<"t", "e", "s", "t">>,
      <<"c", "o", "d", "e">>>>

http_keywords ==
    <<<<"c", "r", "a", "w", "l">>,
      <<"f", "e", "t", "c", "h">>,
      <<"a", "p", "i">>,
      <<"r", "e", "q", "u", "e", "s", "t">>,
      <<"e", "x", "t", "r", "a", "c", "t">>,
      <<"s", "c", "r", "a", "p", "e">>>>

\* the ParameterDefinition(...) calls of the branches
LlmProviderParameter ==
    ParameterDefinition([name |-> "llm_provider", type |-> "select",
                         label |-> Some("LLM Provider"), required |-> TRUE,
                         options |-> Some(<<"openai", "anthropic", "google">>),
                         default |-> Some(PyStr("openai"))])

DataFileParameter ==
    ParameterDefinition([name |-> "data_file", type |-> "file",
                         label |-> Some("Data File"), required |-> TRUE,
                         description |-> Some("Upload the data file to process")])

SchemaInfoParameter ==
    ParameterDefinition([name |-> "schema_info", type |-> "textarea",
                         label |-> Some("Schema Information"), required |-> FALSE,
                         placeholder |-> Some("Optional schema information")])

PageUrlParameter ==
    ParameterDefinition([name |-> "page_url", type |-> "url",
                         label |-> Some("Page URL"), required |-> TRUE,
                         description |-> Some("URL of the page to process")])

InputDataParameter ==
    ParameterDefinition([name |-> "input_data", type |-> "textarea",
                         label |-> Some("Input Data"), required |-> FALSE,
                         placeholder |-> Some("Enter input data for this step")])

\* the tuple returned at line 226; a ParameterDefinition that raised propagates
Inferred(step_type, built, llm_config, custom_handler) ==
    IF \E i \in 1..Len(built) : ~built[i].ok
    THEN [ok |-> FALSE, error |-> "Options required"]
    ELSE [ok |-> TRUE, step_type |-> step_type,
          parameters |-> [i \in 1..Len(built) |-> built[i].value],
          llm_config |-> llm_config, custom_handler |-> custom_handler]

\* f"{prefix}{task_desc.lower().replace(' ', '_')}"
HandlerName(prefix, task_desc) == prefix \o ReplaceChar(Lower(task_desc), " ", "_")

\* an inference branch that embeds the lower-cased description in the template
LlmBranchLowerCased(task_desc) ==
    Inferred("llm_processing", <<LlmProviderParameter>>,
        Some(LLMConfiguration(
            <<"Execute the following task: ", Lower(task_desc), "\n\nInput data: {input_data}">>,
            Some(<<"input_data">>), Some("text"))),
        None)

\* lines 151-170
LlmBranch(task_desc) ==
    Inferred("llm_processing", <<LlmProviderParameter>>,
        Some(LLMConfiguration(
            <<"Execute the following task: ", task_desc, "\n\nInput data: {input_data}">>,
            Some(<<"input_data">>), Some("text"))),
        None)

\* an input branch that files uploads under file_processing
InputBranchAsFileProcessing(task_lower) ==
    Inferred(IF Contains(task_lower, <<"f", "i", "l", "e">>)
                 \/ Contains(task_lower, <<"u", "p", "l", "o", "a", "d">>)
             THEN "file_processing" ELSE "form_input",
        (IF Contains(task_lower, <<"f", "i", "l", "e">>)
             \/ Contains(task_lower, <<"u", "p", "l", "o", "a", "d">>)
         THEN <<DataFileParameter>> ELSE <<>>)
        \o (IF Contains(task_lower, <<"s", "c", "h", "e", "m", "a">>)
            THEN <<SchemaInfoParameter>> ELSE <<>>),
        None, None)

\* lines 172-192
InputBranch(task_lower) ==
    Inferred("form_input",
        (IF Contains(task_lower, <<"f", "i", "l", "e">>)
             \/ Contains(task_lower, <<"u", "p", "l", "o", "a", "d">>)
         THEN <<DataFileParameter>> ELSE <<>>)
        \o (IF Contains(task_lower, <<"s", "c", "h", "e", "m", "a">>)
            THEN <<SchemaInfoParameter>> ELSE <<>>),
        None, None)

\* an execution branch that keeps the case of the description in the handler name
ExecutionBranchKeepingCase(task_desc) ==
    Inferred("code_execution", <<>>, None,
        Some(<<"e", "x", "e", "c", "u", "t", "e", "_">> \o ReplaceChar(task_desc, " ", "_")))

\* lines 194-197
ExecutionBranch(task_desc) ==
    Inferred("code_execution", <<>>, None,
        Some(HandlerName(<<"e", "x", "e", "c", "u", "t", "e", "_">>, task_desc)))

\* an external-request branch that names no handler
HttpBranchWithoutHandler(task_desc, task_lower) ==
    Inferred("http_request",
        IF Contains(task_lower, <<"u", "r", "l">>)
            \/ Contains(task_lower, <<"p", "a", "g", "e">>)
            \/ Contains(task_lower, <<"c", "r", "a", "w", "l">>)
        THEN <<PageUrlParameter>> ELSE <<>>,
        None, None)

\* an external-request branch that looks for url and page only
HttpBranchWithoutCrawl(task_desc, task_lower) ==
    Inferred("http_request",
        IF Contains(task_lower, <<"u", "r", "l">>)
            \/ Contains(task_lower, <<"p", "a", "g", "e">>)
        THEN <<PageUrlParameter>> ELSE <<>>,
        None,
        Some(HandlerName(<<"h", "a", "n", "d", "l", "e", "_">>, task_desc)))

\* lines 199-212
HttpBranch(task_desc, task_lower) ==
    Inferred("http_request",
        IF Contains(task_lower, <<"u", "r", "l">>)
            \/ Contains(task_lower, <<"p", "a", "g", "e">>)
            \/ Contains(task_lower, <<"c", "r", "a", "w", "l">>)
        THEN <<PageUrlParameter>> ELSE <<>>,
        None,
        Some(HandlerName(<<"h", "a", "n", "d", "l", "e", "_">>, task_desc)))

\* lines 214-224
GenericBranch ==
    Inferred("data_transformation", <<InputDataParameter>>, None, None)

\* a classifier that tests the input keywords before the inference keywords
InferInputFirst(self, task_desc) ==
    LET task_lower == Lower(task_desc)
    IN  IF AnyKeyword(task_lower, input_keywords) THEN InputBranch(task_lower)
        ELSE IF AnyKeyword(task_lower, llm_keywords) THEN LlmBranch(task_desc)
        ELSE IF AnyKeyword(task_lower, execution_keywords) THEN ExecutionBranch(task_desc)
        ELSE IF AnyKeyword(task_lower, http_keywords) THEN HttpBranch(task_desc, task_lower)
        ELSE GenericBranch

\* a classifier that consults the registry: once a workflow is registered,
\* an execution step is given the provider parameter as well
InferReadingRegistry(self, task_desc) ==
    LET task_lower == Lower(task_desc)
    IN  IF AnyKeyword(task_lower, llm_keywords) THEN LlmBranch(task_desc)
        ELSE IF AnyKeyword(task_lower, input_keywords) THEN InputBranch(task_lower)
        ELSE IF AnyKeyword(task_lower, execution_keywords)
             THEN IF DOMAIN self = {} THEN ExecutionBranch(task_desc)
                  ELSE Inferred("code_execution", <<LlmProviderParameter>>, None, None)
        ELSE IF AnyKeyword(task_lower, http_keywords) THEN HttpBranch(task_desc, task_lower)
        ELSE GenericBranch

\* self is the manager (its registry), which the method never reads
_infer_step_configuration(self, task_desc) ==
    LET task_lower == Lower(task_desc)
    IN  IF AnyKeyword(task_lower, llm_keywords) THEN LlmBranch(task_desc)
        ELSE IF AnyKeyword(task_lower, input_keywords) THEN InputBranch(task_lower)
        ELSE IF AnyKeyword(task_lower, execution_keywords) THEN ExecutionBranch(task_desc)
        ELSE IF AnyKeyword(task_lower, http_keywords) THEN HttpBranch(task_desc, task_lower)
        ELSE GenericBranch

----------------------------------------------------------------------------
(* workflow_manager.py: create_workflow_from_tasks *)

\* the keys taken in descending order
RECURSIVE KeysDescending(_)
KeysDescending(keys) ==
    IF keys = {} THEN <<>>
    ELSE LET greatest == CHOOSE k \in keys : \A other \in keys : k >= other
         IN  <<greatest>> \o KeysDescending(keys \ {greatest})

\* sorted(tasks.items()): the keys of the dict in ascending order
RECURSIVE SortedKeys(_)
SortedKeys(keys) ==
    IF keys = {} THEN <<>>
    ELSE LET least == CHOOSE k \in keys : \A other \in keys : k <= other
         IN  <<least>> \o SortedKeys(keys \ {least})

\* f"step_{step_num}"
StepIdOf(step_num) == <<"s", "t", "e", "p", "_">> \o IntToStr(step_num)

\* lines 85-87: the id derived from the name when no id is given
DeriveWorkflowId(workflow_name) ==
    ReplaceChar(
        Join(<<"_">>,
             IF workflow_name.some /\ Len(workflow_name.val) > 0
             THEN SplitBlank(Lower(workflow_name.val), <<>>, <<>>)
             ELSE << <<"a", "u", "t", "o">>, <<"w", "o", "r", "k", "f", "l", "o", "w">> >>),
        "-", "_")

\* lines 89-90: the name derived from the id when no name is given
DeriveWorkflowName(workflow_id) ==
    Title(Join(<<" ">>, SplitOn(workflow_id, "_", <<>>, <<>>)))

\* lines 93-111: one StepDefinition per task, in key order; a classification
\* that raised ends the loop with its error
RECURSIVE BuildSteps(_, _, _, _)
BuildSteps(self, tasks, keys, steps) ==
    IF keys = <<>> THEN [ok |-> TRUE, value |-> steps]
    ELSE LET step_num == Head(keys)
             task_desc == tasks[step_num]
             inferred == _infer_step_configuration(self, task_desc)
         IN  IF ~inferred.ok THEN inferred
             ELSE BuildSteps(self, tasks, Tail(keys),
                      Append(steps,
                          StepDefinition(
                              StepIdOf(step_num),
                              Title(task_desc),
                              inferred.step_type,
                              Some(<<"Execute ", task_desc>>),
                              IF step_num > 1 THEN Some(<<StepIdOf(step_num - 1)>>) ELSE None,
                              Some(inferred.parameters),
                              inferred.llm_config,
                              inferred.custom_handler)))

WorkflowMetadata(id, name, description, category, version, author) ==
    [id |-> id, name |-> name, description |-> description,
     category |-> category, version |-> version, author |-> author]

\* a create that keeps the entry of an id that is already registered
CreateKeepingFirstEntry(self, tasks, workflow_name, workflow_id, description, category) ==
    LET id == IF workflow_id.some /\ Len(workflow_id.val) > 0
              THEN workflow_id.val ELSE DeriveWorkflowId(workflow_name)
        name == IF workflow_name.some /\ Len(workflow_name.val) > 0
                THEN workflow_name.val ELSE DeriveWorkflowName(id)
        steps == BuildSteps(self, tasks, SortedKeys(DOMAIN tasks), <<>>)
        workflow == WorkflowSchema(
                        WorkflowMetadata(id, name,
                            IF description.some /\ Len(description.val) > 0
                            THEN description
                            ELSE Some(<<"Auto-generated workflow for ", name>>),
                            Some(category), "1.0.0",
                            Some("Workflow Manager Auto-Generator")),
                        steps.value)
    IN  IF ~steps.ok
        THEN [raised |-> TRUE, error |-> steps.error, registry |-> self]
        ELSE IF ~workflow.ok
        THEN [raised |-> TRUE, error |-> workflow.error, step |-> workflow.step,
              dep |-> workflow.dep, registry |-> self]
        ELSE [raised |-> FALSE, workflow_id |-> id,
              registry |-> [w \in DOMAIN self \cup {id} |->
                               IF w \in DOMAIN self THEN self[w] ELSE workflow.value]]

\* the whole method: the value returned or the error raised, and the registry after it
create_workflow_from_tasks(self, tasks, workflow_name, workflow_id, description, category) ==
    LET id == IF workflow_id.some /\ Len(workflow_id.val) > 0
              THEN workflow_id.val ELSE DeriveWorkflowId(workflow_name)
        name == IF workflow_name.some /\ Len(workflow_name.val) > 0
                THEN workflow_name.val ELSE DeriveWorkflowName(id)
        steps == BuildSteps(self, tasks, SortedKeys(DOMAIN tasks), <<>>)
        workflow == WorkflowSchema(
                        WorkflowMetadata(id, name,
                            IF description.some /\ Len(description.val) > 0
                            THEN description
                            ELSE Some(<<"Auto-generated workflow for ", name>>),
                            Some(category), "1.0.0",
                            Some("Workflow Manager Auto-Generator")),
                        steps.value)
    IN  IF ~steps.ok
        THEN [raised |-> TRUE, error |-> steps.error, registry |-> self]
        ELSE IF ~workflow.ok
        THEN [raised |-> TRUE, error |-> workflow.error, step |-> workflow.step,
              dep |-> workflow.dep, registry |-> self]
        ELSE [raised |-> FALSE, workflow_id |-> id,
              registry |-> [w \in DOMAIN self \cup {id} |->
                               IF w = id THEN workflow.value ELSE self[w]]]

----------------------------------------------------------------------------
(* workflow_generator.py: what the templates render from a graph.  An       *)
(* artifact is the structure of the generated text: for every template      *)
(* expression and every taken branch the value that is written there, in    *)
(* the order of the template; the fixed text between them is left out.      *)

\* `x or fallback` for an Optional[str] held as a TLA+ string
OrText(opt, fallback) == IF opt.some /\ opt.val # "" THEN opt.val ELSE fallback

\* jinja2's title filter: the text is split at runs of - ( { [ < and blanks,
\* every piece gets its first character upper-cased and the rest lower-cased
TitleSeparators == {" ", "-", "(", "{", "[", "<"}

JinjaTitle(s) ==
    [i \in 1..Len(s) |->
        IF s[i] \in TitleSeparators THEN s[i]
        ELSE IF i = 1 \/ s[i - 1] \in TitleSeparators THEN UpperChar(s[i])
        ELSE LowerChar(s[i])]

\* str.capitalize()
Capitalize(word) ==
    IF word = <<>> THEN <<>> ELSE <<UpperChar(Head(word))>> \o Lower(Tail(word))

\* "".join(word.capitalize() for word in workflow.metadata.id.split("_"))
ClassName(id) ==
    LET words == SplitOn(id, "_", <<>>, <<>>)
    IN  Join(<<>>, [k \in 1..Len(words) |-> Capitalize(words[k])])

\* {{ value }}: the text str(value)
Str(value) == [str |-> value]

\* {{ param.default or fallback }}
DefaultOr(param, fallback) ==
    IF param.default.some /\ PyTruthy(param.default.val)
    THEN Str(param.default.val) ELSE fallback

\* json.dumps of a value: a tuple is written as an array like a list, a set
\* is not serializable
ToJson(value) ==
    CASE value.py = "str" -> [ok |-> TRUE, value |-> [json |-> "string", val |-> value.val]]
      [] value.py = "int" -> [ok |-> TRUE, value |-> [json |-> "number", val |-> value.val]]
      [] value.py \in {"tuple", "list"} ->
             [ok |-> TRUE, value |-> [json |-> "array", val |-> value.val]]
      [] OTHER -> [ok |-> FALSE, error |-> "TypeError"]

\* json.loads of what ToJson wrote
FromJson(doc) ==
    CASE doc.json = "string" -> PyStr(doc.val)
      [] doc.json = "number" -> PyInt(doc.val)
      [] OTHER -> PyList(doc.val)

\* lines 68-78: the field a parameter gets in the request model of its step;
\* a parameter of a type none of the branches names gets no line
RequestModelTypes == {"string", "url", "textarea", "number", "boolean", "select", "file"}

RequestField(param) ==
    CASE param.type \in {"string", "url", "textarea"} ->
             [name |-> param.name, annotation |-> "str",
              field |-> IF param.required THEN Str(PyStr("..."))
                        ELSE DefaultOr(param, Str(PyStr(""))),
              description |-> OrText(param.description, "")]
      [] param.type = "number" ->
             [name |-> param.name, annotation |-> "float",
              field |-> IF param.required THEN Str(PyStr("..."))
                        ELSE DefaultOr(param, Str(PyInt("0"))),
              description |-> OrText(param.description, "")]
      [] param.type = "boolean" ->
             [name |-> param.name, annotation |-> "bool",
              field |-> IF param.required THEN Str(PyStr("..."))
                        ELSE DefaultOr(param, Str(PyStr("False"))),
              description |-> OrText(param.description, "")]
      [] param.type = "select" ->
             [name |-> param.name, annotation |-> "str",
              field |-> IF param.required THEN Str(PyStr("..."))
                        ELSE IF Truthy(param.options)
                             THEN Str(PyStr(param.options.val[1]))
                             ELSE Str(PyStr("")),
              description |-> OrText(param.description, "")]
      [] param.type = "file" ->
             [name |-> param.name, annotation |-> "Optional[str]",
              field |-> Str(PyStr("None")),
              description |-> OrText(param.description, "")]

\* lines 64-90: the request model of a step
RequestModel(step) ==
    LET params == OrEmpty(step.parameters)
        rendered == SelectSeq(params, LAMBDA param : param.type \in RequestModelTypes)
    IN  [step_id |-> step.id,
         class |-> <<JinjaTitle(step.id), "Request">>,
         fields |-> [k \in 1..Len(rendered) |-> RequestField(rendered[k])],
         pass |-> Len(params) = 0,
         response |-> <<JinjaTitle(step.id), "Response">>]

\* a template whose chain of branches has no else
HandlerBodyWithoutElse(step) ==
    CASE step.type = "llm_processing" ->
             [branch |-> "llm_processing",
              template_vars |-> IF step.llm_config.some
                                THEN OrEmpty(step.llm_config.val.template_variables)
                                ELSE <<>>,
              prompt |-> IF step.llm_config.some
                         THEN step.llm_config.val.user_prompt_template
                         ELSE <<"Process the request">>]
      [] step.type = "form_input" ->
             [branch |-> "form_input", result_data |-> "request.dict()"]
      [] OTHER -> [branch |-> "none"]

\* lines 146-222: the branch of the handler body the step type selects
HandlerBody(step) ==
    CASE step.type = "llm_processing" ->
             [branch |-> "llm_processing",
              template_vars |-> IF step.llm_config.some
                                THEN OrEmpty(step.llm_config.val.template_variables)
                                ELSE <<>>,
              prompt |-> IF step.llm_config.some
                         THEN step.llm_config.val.user_prompt_template
                         ELSE <<"Process the request">>]
      [] step.type = "form_input" ->
             [branch |-> "form_input", result_data |-> "request.dict()"]
      [] step.type = "file_processing" ->
             [branch |-> "file_processing", message |-> "File processing completed",
              step_id |-> step.id]
      [] step.type = "http_request" ->
             IF Truthy(step.custom_handler)
             THEN [branch |-> "http_request", call |-> step.custom_handler.val]
             ELSE [branch |-> "http_request", message |-> "HTTP request completed",
                   step_id |-> step.id]
      [] step.type = "code_execution" ->
             IF Truthy(step.custom_handler)
             THEN [branch |-> "code_execution", call |-> step.custom_handler.val]
             ELSE [branch |-> "code_execution", message |-> "Code execution completed",
                   step_id |-> step.id]
      [] OTHER ->
             [branch |-> "generic", message |-> <<"Step ", step.id, " completed successfully">>,
              step_id |-> step.id, request_data |-> "request.dict()"]

\* lines 140-237: the handler method of a step
Handler(step) ==
    [name |-> step.id,
     request |-> <<JinjaTitle(step.id), "Request">>,
     doc |-> IF step.description.some /\ step.description.val # <<>>
             THEN step.description.val ELSE <<"Execute ", step.name>>,
     body |-> HandlerBody(step),
     message |-> step.name]

\* lines 552-555: the handler names in the order they are first added to the set
RECURSIVE AddedHandlers(_)
AddedHandlers(steps) ==
    IF steps = <<>> THEN <<>>
    ELSE LET before == AddedHandlers(SubSeq(steps, 1, Len(steps) - 1))
             step == steps[Len(steps)]
         IN  IF Truthy(step.custom_handler) /\ step.custom_handler.val \notin Range(before)
             THEN Append(before, step.custom_handler.val)
             ELSE before

\* list(custom_handlers), line 569: a set of str is iterated in the order of
\* the hashes of its members, which the interpreter salts with the seed it
\* drew at start-up.  Two of the orders it produces: that of insertion and
\* its reverse.
SetOrder(seed, added) ==
    IF seed = 0 THEN added
    ELSE [k \in 1..Len(added) |-> added[Len(added) + 1 - k]]

\* lines 546-570; self is the interpreter the generator runs in
generate_fastapi_plugin(self, workflow) ==
    [class_name |-> ClassName(workflow.metadata.id),
     workflow_id |-> workflow.metadata.id,
     workflow_name |-> workflow.metadata.name,
     version |-> workflow.metadata.version,
     description |-> IF Truthy(workflow.metadata.description)
                     THEN workflow.metadata.description.val ELSE <<>>,
     author |-> OrText(workflow.metadata.author, "Auto-generated"),
     category |-> OrText(workflow.metadata.category, "general"),
     request_models |-> [i \in 1..Len(workflow.steps) |-> RequestModel(workflow.steps[i])],
     routes |-> [i \in 1..Len(workflow.steps) |->
                    <<"/", workflow.metadata.id, "/", workflow.steps[i].id>>],
     handlers |-> [i \in 1..Len(workflow.steps) |-> Handler(workflow.steps[i])],
     custom_handlers |-> SetOrder(self.hash_seed, AddedHandlers(workflow.steps))]


\* line 298: the initial value of a parameter in the form state of its step
FormField(param) ==
    IF param.default.some /\ PyTruthy(param.default.val)
    THEN LET written == ToJson(param.default.val)
         IN  IF written.ok
             THEN [ok |-> TRUE, value |-> [name |-> param.name, initial |-> written.value]]
             ELSE written
    ELSE [ok |-> TRUE,
          value |-> [name |-> param.name,
                     initial |-> IF param.type = "string" THEN "\"\""
                                 ELSE IF param.type = "boolean" THEN "false"
                                 ELSE "0"]]

\* lines 379-436: the input element of a parameter, none for the other types
FormInput(step, param) ==
    [label |-> IF param.label.some /\ param.label.val # "" THEN param.label.val
               ELSE param.name,
     required |-> param.required,
     input |-> IF param.type \in {"string", "number", "boolean", "select",
                                  "textarea", "file", "url"}
               THEN <<param.type, step.id, "Form.", param.name>>
               ELSE <<>>,
     options |-> IF param.type = "select" THEN OrEmpty(param.options) ELSE <<>>]

\* lines 295-302 and 363-482: what the component holds for one step; a
\* default that cannot be written as JSON makes the rendering raise
StepForm(step) ==
    LET params == OrEmpty(step.parameters)
        fields == [k \in 1..Len(params) |-> FormField(params[k])]
    IN  IF \E k \in 1..Len(params) : ~fields[k].ok
        THEN [ok |-> FALSE, error |-> "TypeError"]
        ELSE [ok |-> TRUE,
              value |-> [step_id |-> step.id,
                         name |-> step.name,
                         state |-> <<step.id, "Form">>,
                         setter |-> <<"set", JinjaTitle(step.id), "Form">>,
                         fields |-> [k \in 1..Len(params) |-> fields[k].value],
                         inputs |-> [k \in 1..Len(params) |-> FormInput(step, params[k])]]]

\* lines 572-587
generate_react_component(workflow) ==
    LET forms == [i \in 1..Len(workflow.steps) |-> StepForm(workflow.steps[i])]
    IN  IF \E i \in 1..Len(workflow.steps) : ~forms[i].ok
        THEN [ok |-> FALSE, error |-> "TypeError"]
        ELSE [ok |-> TRUE,
              value |-> [component_name |-> <<ClassName(workflow.metadata.id), "Workflow">>,
                         workflow_name |-> workflow.metadata.name,
                         steps |-> [i \in 1..Len(workflow.steps) |-> forms[i].value]]]

\* lines 589-605
generate_app_config(workflow) ==
    [id |-> workflow.metadata.id,
     name |-> workflow.metadata.name,
     description |-> IF Truthy(workflow.metadata.description)
                     THEN workflow.metadata.description.val ELSE <<>>,
     category |-> OrText(workflow.metadata.category, "general"),
     plugin_class |-> <<workflow.metadata.id, "_plugin.plugin_instance">>,
     steps |-> [i \in 1..Len(workflow.steps) |->
                   [id |-> workflow.steps[i].id,
                    name |-> workflow.steps[i].name,
                    description |-> IF workflow.steps[i].description.some
                                       /\ workflow.steps[i].description.val # <<>>
                                    THEN workflow.steps[i].description.val ELSE <<>>]]]

\* json.dumps of the dict model_dump() gives for a parameter: every field is
\* a key, None is written as null, the default as ToJson writes it
DumpParameter(param) ==
    IF param.default.some
    THEN LET written == ToJson(param.default.val)
         IN  IF written.ok
             THEN [ok |-> TRUE, value |-> [param EXCEPT !.default = Some(written.value)]]
             ELSE written
    ELSE [ok |-> TRUE, value |-> param]

DumpStep(step) ==
    LET params == OrEmpty(step.parameters)
        dumped == [k \in 1..Len(params) |-> DumpParameter(params[k])]
    IN  IF \E k \in 1..Len(params) : ~dumped[k].ok
        THEN [ok |-> FALSE, error |-> "TypeError"]
        ELSE [ok |-> TRUE,
              value |-> [step EXCEPT !.parameters =
                            IF @.some THEN Some([k \in 1..Len(params) |-> dumped[k].value])
                            ELSE @]]

\* lines 624-626: json.dumps(workflow.model_dump(), indent=2)
DumpSchema(workflow) ==
    LET dumped == [i \in 1..Len(workflow.steps) |-> DumpStep(workflow.steps[i])]
    IN  IF \E i \in 1..Len(workflow.steps) : ~dumped[i].ok
        THEN [ok |-> FALSE, error |-> "TypeError"]
        ELSE [ok |-> TRUE,
              value |-> [metadata |-> workflow.metadata,
                         steps |-> [i \in 1..Len(workflow.steps) |-> dumped[i].value]]]

\* the keys of the dict generate_workflow_files returns, in the order they are set
FileKinds == <<"_plugin.py", "_workflow.tsx", "_config.json", "_schema.json">>

FileName(workflow_id, kind) == <<workflow_id, kind>>

\* the emitter of one kind of file
Emit(kind, self, workflow) ==
    CASE kind = "_plugin.py" -> [ok |-> TRUE, value |-> generate_fastapi_plugin(self, workflow)]
      [] kind = "_workflow.tsx" -> generate_react_component(workflow)
      [] kind = "_config.json" -> [ok |-> TRUE, value |-> generate_app_config(workflow)]
      [] kind = "_schema.json" -> DumpSchema(workflow)

\* lines 607-628: the four emitters run in turn with no try around any of
\* them, so the first that raises ends the call and nothing is returned
RECURSIVE EmitFrom(_, _, _, _)
EmitFrom(k, self, workflow, files) ==
    IF k > Len(FileKinds) THEN [ok |-> TRUE, value |-> files]
    ELSE LET emitted == Emit(FileKinds[k], self, workflow)
             name == FileName(workflow.metadata.id, FileKinds[k])
         IN  IF ~emitted.ok THEN [ok |-> FALSE, error |-> emitted.error, kind |-> FileKinds[k]]
             ELSE EmitFrom(k + 1, self, workflow,
                           [f \in DOMAIN files \cup {name} |->
                               IF f = name THEN emitted.value ELSE files[f]])

generate_workflow_files(self, workflow) == EmitFrom(1, self, workflow, <<>>)

\* json.loads of a dumped parameter, given to ParameterDefinition(**data):
\* every field is a keyword argument, the ones that were None as well
LoadParameter(doc) ==
    ParameterDefinition(
        [f \in ParameterFields |->
            IF f = "default" /\ doc.default.some THEN Some(FromJson(doc.default.val))
            ELSE doc[f]])

LoadStep(doc) ==
    LET params == OrEmpty(doc.parameters)
        loaded == [k \in 1..Len(params) |-> LoadParameter(params[k])]
    IN  IF \E k \in 1..Len(params) : ~loaded[k].ok
        THEN [ok |-> FALSE, error |-> "Options required"]
        ELSE [ok |-> TRUE,
              value |-> StepDefinition(doc.id, doc.name, doc.type, doc.description,
                            doc.depends_on,
                            IF doc.parameters.some
                            THEN Some([k \in 1..Len(params) |-> loaded[k].value])
                            ELSE doc.parameters,
                            doc.llm_config, doc.custom_handler)]

\* WorkflowSchema(**json.loads(text))
LoadSchema(doc) ==
    LET loaded == [i \in 1..Len(doc.steps) |-> LoadStep(doc.steps[i])]
    IN  IF \E i \in 1..Len(doc.steps) : ~loaded[i].ok
        THEN [ok |-> FALSE, error |-> "Options required"]
        ELSE LET built == WorkflowSchema(doc.metadata,
                              [i \in 1..Len(doc.steps) |-> loaded[i].value])
             IN  IF built.ok THEN built ELSE [ok |-> FALSE, error |-> built.error]

\* dump, then parse and construct
RoundTripSchema(workflow) ==
    LET dumped == DumpSchema(workflow)
    IN  IF dumped.ok THEN LoadSchema(dumped.value) ELSE dumped

----------------------------------------------------------------------------
(* workflow_manager.py: the calls that look a workflow id up *)

\* a lookup that registers an empty workflow under an id it does not know
GetOrRegisterEmpty(self, workflow_id) ==
    LET registry == IF workflow_id \in DOMAIN self THEN self
                    ELSE [w \in DOMAIN self \cup {workflow_id} |->
                             IF w = workflow_id
                             THEN [metadata |-> WorkflowMetadata(workflow_id, workflow_id,
                                                    None, None, "1.0.0", None),
                                   steps |-> <<>>]
                             ELSE self[w]]
    IN  [raised |-> FALSE, value |-> registry[workflow_id], registry |-> registry]

\* lines 351-355; self is the registry, returned as it is after the call
get_workflow_schema(self, workflow_id) ==
    IF workflow_id \notin DOMAIN self
    THEN [raised |-> TRUE, error |-> "not found in registry", registry |-> self]
    ELSE [raised |-> FALSE, value |-> self[workflow_id], registry |-> self]


\* lines 228-234; self is the manager: its registry and its generator
generate_workflow(self, workflow_id) ==
    IF workflow_id \notin DOMAIN self.workflows_registry
    THEN [raised |-> TRUE, error |-> "not found in registry",
          registry |-> self.workflows_registry]
    ELSE LET files == generate_workflow_files(self.generator,
                                              self.workflows_registry[workflow_id])
         IN  IF files.ok
             THEN [raised |-> FALSE, value |-> files.value,
                   registry |-> self.workflows_registry]
             ELSE [raised |-> TRUE, error |-> files.error,
                   registry |-> self.workflows_registry]

\* lines 236-272: the files the call writes, in the order it writes them, and
\* the paths it returns; a call that raises has written nothing before
deploy_workflow(self, workflow_id) ==
    IF workflow_id \notin DOMAIN self.workflows_registry
    THEN [raised |-> TRUE, error |-> "not found in registry", writes |-> <<>>,
          registry |-> self.workflows_registry]
    ELSE LET files == generate_workflow_files(self.generator,
                                              self.workflows_registry[workflow_id])
             paths == << <<"backend_dir", workflow_id, "_plugin.py">>,
                         <<"frontend_dir", workflow_id, "_workflow.tsx">>,
                         <<"apps_dir", workflow_id, "config.json">>,
                         <<"apps_dir", workflow_id, "schema.json">> >>
         IN  IF files.ok
             THEN [raised |-> FALSE, value |-> paths,
                   writes |-> [k \in 1..Len(FileKinds) |->
                                  [path |-> paths[k], kind |-> FileKinds[k],
                                   content |-> files.value[FileName(workflow_id, FileKinds[k])]]],
                   registry |-> self.workflows_registry]
             ELSE [raised |-> TRUE, error |-> files.error, writes |-> <<>>,
                   registry |-> self.workflows_registry]

\* lines 274-317: the values the f-strings put into the integration code
integrate_with_main_api(self, workflow_id) ==
    IF workflow_id \notin DOMAIN self.workflows_registry
    THEN [raised |-> TRUE, error |-> "not found in registry",
          registry |-> self.workflows_registry]
    ELSE LET workflow == self.workflows_registry[workflow_id]
         IN  [raised |-> FALSE,
              value |-> [workflow_id |-> workflow_id,
                         name |-> workflow.metadata.name,
                         description |-> Str(workflow.metadata.description),
                         category |-> Str(workflow.metadata.category),
                         steps |-> [i \in 1..Len(workflow.steps) |->
                                       [id |-> workflow.steps[i].id,
                                        name |-> workflow.steps[i].name,
                                        description |->
                                            IF workflow.steps[i].description.some
                                               /\ workflow.steps[i].description.val # <<>>
                                            THEN workflow.steps[i].description.val
                                            ELSE <<>>]]],
              registry |-> self.workflows_registry]

----------------------------------------------------------------------------
(* live_server.py: execute_step, simulate_step_execution and get_session.   *)
(* The handlers are coroutines of one event loop: a handler runs without    *)
(* interruption up to its await and again from there to its return, and     *)
(* other handlers run while it is suspended in asyncio.sleep.               *)

\* dict.get(key, default)
Get(params, key, default) == IF key \in DOMAIN params THEN params[key] ELSE default

StepExecutionRequest(workflow_id, step_id, parameters, session_id) ==
    [workflow_id |-> workflow_id, step_id |-> step_id, parameters |-> parameters,
     session_id |-> session_id]

\* lines 134-209: the dict returned after the sleep
simulate_step_execution(request) ==
    LET step_id == request.step_id
        workflow_id == request.workflow_id
        params == request.parameters
    IN  IF Contains(Lower(step_id), <<"l", "l", "m">>)
            \/ Contains(Lower(workflow_id), <<"a", "i">>)
        THEN [type |-> "llm_processing",
              ai_response |-> <<"Generated content based on: ",
                                Get(params, "topic", "your input")>>,
              model_used |-> Get(params, "llm_provider", "GPT-4"),
              tokens_used |-> 245,
              processing_time |-> "2.1s",
              content_length |-> 1247,
              quality_score |-> "0.92"]
        ELSE IF Contains(Lower(step_id), <<"t", "e", "s", "t">>)
            \/ Contains(Lower(workflow_id), <<"t", "e", "s", "t", "i", "n", "g">>)
        THEN [type |-> "automated_testing",
              tests_executed |-> 47,
              tests_passed |-> 45,
              tests_failed |-> 2,
              test_coverage |-> "94.2%",
              execution_time |-> "3.2s",
              browser_used |-> Get(params, "browser", "Chrome"),
              screenshots_taken |-> 12,
              performance_score |-> "0.87"]
        ELSE IF Contains(Lower(step_id), <<"d", "a", "t", "a">>)
            \/ Contains(Lower(workflow_id),
                        <<"p", "r", "o", "c", "e", "s", "s", "i", "n", "g">>)
        THEN [type |-> "data_processing",
              records_processed |-> 10247,
              validation_passed |-> 9856,
              validation_failed |-> 391,
              processing_time |-> "1.8s",
              data_size |-> "2.4 MB",
              analysis_type |-> Get(params, "analysis_type", "Statistical Summary"),
              anomalies_detected |-> 3,
              quality_score |-> "0.96"]
        ELSE IF Contains(Lower(step_id), <<"r", "e", "p", "o", "r", "t">>)
            \/ Contains(Lower(step_id), <<"o", "u", "t", "p", "u", "t">>)
        THEN [type |-> "output_generation",
              report_generated |-> TRUE,
              file_size |-> "847 KB",
              pages_generated |-> 15,
              charts_created |-> 8,
              export_format |-> Get(params, "format", "PDF"),
              download_url |-> <<"/api/download/", workflow_id, "_report.pdf">>,
              generation_time |-> "1.2s"]
        ELSE [type |-> "form_input",
              data_collected |-> params,
              validation_status |-> "passed",
              fields_completed |-> Cardinality(DOMAIN params),
              processing_time |-> "0.3s",
              next_step_ready |-> TRUE]

\* line 91: request.session_id or f"session_{int(time.time())}"
SessionIdFor(request, time) ==
    IF Truthy(request.session_id) THEN request.session_id.val
    ELSE <<"s", "e", "s", "s", "i", "o", "n", "_">> \o NatToStr(time)

\* lines 91-108: execute_step from its entry to the await inside
\* simulate_step_execution, at clock reading time
execute_step_enter(sessions, request, time) ==
    LET session_id == SessionIdFor(request, time)
    IN  [session_id |-> session_id,
         start_time |-> time,
         sessions |->
             IF session_id \notin DOMAIN sessions
             THEN [id \in DOMAIN sessions \cup {session_id} |->
                      IF id = session_id
                      THEN [workflow_id |-> request.workflow_id,
                            steps_completed |-> <<>>,
                            step_results |-> <<>>,
                            created_at |-> time]
                      ELSE sessions[id]]
             ELSE sessions]

\* a resumption that appends the step id without looking whether it is there
ResumeAppendingAlways(sessions, request, session_id, start_time, raised, time) ==
    IF raised
    THEN [sessions |-> sessions,
          response |-> [status |-> "sent", op |-> "execute_step",
                        success |-> FALSE, data |-> None,
                        message |-> <<"Step execution failed: ", "error">>,
                        execution_time |-> time - start_time,
                        session_id |-> session_id]]
    ELSE LET result == simulate_step_execution(request)
             session == sessions[session_id]
             step_results == [id \in DOMAIN session.step_results \cup {request.step_id} |->
                                 IF id = request.step_id THEN result
                                 ELSE session.step_results[id]]
         IN  [sessions |-> [sessions EXCEPT ![session_id] =
                               [session EXCEPT !.step_results = step_results,
                                               !.steps_completed =
                                                   Append(@, request.step_id)]],
              response |-> [status |-> "sent", op |-> "execute_step", success |-> TRUE,
                            data |-> Some(result),
                            message |-> <<"Step ", request.step_id,
                                          " executed successfully">>,
                            execution_time |-> time - start_time,
                            session_id |-> session_id]]

\* lines 108-132: execute_step from the return of the awaited call, which
\* gave its dict or raised, to the response, at clock reading time; session
\* is the dict bound at line 102, which stays the entry of session_id
\* because no code removes or replaces an entry of execution_sessions
execute_step_resume(sessions, request, session_id, start_time, raised, time) ==
    IF raised
    THEN [sessions |-> sessions,
          response |-> [status |-> "sent", op |-> "execute_step",
                        success |-> FALSE, data |-> None,
                        message |-> <<"Step execution failed: ", "error">>,
                        execution_time |-> time - start_time,
                        session_id |-> session_id]]
    ELSE LET result == simulate_step_execution(request)
             session == sessions[session_id]
             step_results == [id \in DOMAIN session.step_results \cup {request.step_id} |->
                                 IF id = request.step_id THEN result
                                 ELSE session.step_results[id]]
             steps_completed ==
                 IF request.step_id \notin Range(session.steps_completed)
                 THEN Append(session.steps_completed, request.step_id)
                 ELSE session.steps_completed
         IN  [sessions |-> [sessions EXCEPT ![session_id] =
                               [session EXCEPT !.step_results = step_results,
                                               !.steps_completed = steps_completed]],
              response |-> [status |-> "sent", op |-> "execute_step", success |-> TRUE,
                            data |-> Some(result),
                            message |-> <<"Step ", request.step_id,
                                          " executed successfully">>,
                            execution_time |-> time - start_time,
                            session_id |-> session_id]]

\* lines 211-225
get_session(sessions, session_id) ==
    IF session_id \notin DOMAIN sessions
    THEN [status |-> "sent", op |-> "get_session", status_code |-> 404,
          detail |-> "Session not found"]
    ELSE LET session == sessions[session_id]
         IN  [status |-> "sent", op |-> "get_session", status_code |-> 200,
              session_id |-> session_id,
              workflow_id |-> session.workflow_id,
              steps_completed |-> session.steps_completed,
              total_steps |-> Cardinality(DOMAIN session.step_results),
              created_at |-> session.created_at,
              results |-> session.step_results]

----------------------------------------------------------------------------
(* A caller assembling a graph by hand and constructing it *)

NoResult == [status |-> "none"]

HandMetadata == WorkflowMetadata(<<"g">>, <<"G">>, None, None, "1.0.0", None)

\* a StepDefinition with only id given beside the required name and type
PlainStep(id) ==
    StepDefinition(id, id, "data_transformation", None, None, None, None, None)

GraphSize(steps) ==
    Len(steps) + SeqSum([i \in 1..Len(steps) |-> Len(OrEmpty(steps[i].depends_on))])

AddStep(id) ==
    /\ construct_result.status = "none"
    /\ GraphSize(draft) < MaxGraphSize
    /\ draft' = Append(draft, PlainStep(id))
    /\ UNCHANGED serverVars
    /\ UNCHANGED <<schema, construct_result, order_result, first_order, paramVars,
                   managerVars, generatorVars, deployVars>>

\* append one id to the depends_on list of the step added last
AddDependency(dep) ==
    /\ construct_result.status = "none"
    /\ draft # <<>>
    /\ GraphSize(draft) < MaxGraphSize
    /\ LET n == Len(draft)
           old == OrEmpty(draft[n].depends_on)
       IN  draft' = [draft EXCEPT ![n].depends_on = Some(Append(old, dep))]
    /\ UNCHANGED serverVars
    /\ UNCHANGED <<schema, construct_result, order_result, first_order, paramVars,
                   managerVars, generatorVars, deployVars>>

Construct ==
    /\ construct_result.status = "none"
    /\ LET built == WorkflowSchema(HandMetadata, draft)
       IN  IF built.ok
           THEN /\ schema' = Some(built.value)
                /\ construct_result' = [status |-> "ok"]
           ELSE /\ schema' = None
                /\ construct_result' = [status |-> "error", error |-> built.error,
                                        step |-> built.step, dep |-> built.dep]
    /\ first_order' = None
    /\ UNCHANGED serverVars
    /\ UNCHANGED <<draft, order_result, paramVars, managerVars, generatorVars,
                   deployVars>>

\* calls of get_execution_order on one graph are counted up to this number
MaxOrderCalls == 2

GetExecutionOrder ==
    /\ schema.some
    /\ first_order.some => first_order.val.calls < MaxOrderCalls
    /\ LET call == CallGetExecutionOrder(schema.val)
       IN  /\ schema' = Some(call.self)
           /\ order_result' = call.returned
           /\ first_order' =
                  IF first_order.some
                  THEN Some([first_order.val EXCEPT !.calls = @ + 1])
                  ELSE Some([graph |-> schema.val, result |-> call.returned,
                             calls |-> 1])
    /\ UNCHANGED serverVars
    /\ UNCHANGED <<draft, construct_result, paramVars, managerVars, generatorVars,
                   deployVars>>

----------------------------------------------------------------------------
(* Calls on the manager *)

CreateWorkflowFromTasks(tasks, workflow_name, workflow_id) ==
    /\ LET out == create_workflow_from_tasks(workflows_registry, tasks, workflow_name,
                                             workflow_id, None, "auto_generated")
       IN  /\ workflows_registry' = out.registry
           /\ create_result' =
                  IF out.raised
                  THEN IF out.error = "non-existent step"
                       THEN [status |-> "error", tasks |-> tasks, error |-> out.error,
                             step |-> out.step, dep |-> out.dep]
                       ELSE [status |-> "error", tasks |-> tasks, error |-> out.error]
                  ELSE [status |-> "ok", tasks |-> tasks, workflow_id |-> out.workflow_id,
                        replaced |-> out.workflow_id \in DOMAIN workflows_registry]
    /\ UNCHANGED serverVars
    /\ UNCHANGED <<graphVars, paramVars, classified, first_classified,
                   generatorVars, deployVars>>

\* a call of the classifier on its own
Classify(task_desc) ==
    /\ classified' = Some([task_desc |-> task_desc,
                           registered |-> DOMAIN workflows_registry,
                           result |-> _infer_step_configuration(workflows_registry, task_desc)])
    /\ first_classified' = IF first_classified.some THEN first_classified ELSE classified'
    /\ UNCHANGED serverVars
    /\ UNCHANGED <<graphVars, paramVars, workflows_registry, create_result,
                   generatorVars, deployVars>>

\* what a call that looked an id up left behind: its name, the id, whether
\* it returned, and the error if it raised
LookupOutcome(op, workflow_id, out) ==
    IF out.raised
    THEN [op |-> op, workflow_id |-> workflow_id, status |-> "error",
          error |-> out.error]
    ELSE [op |-> op, workflow_id |-> workflow_id, status |-> "ok"]

\* a call manager.get_workflow_schema(workflow_id); the caller keeps the graph
GetWorkflowSchema(workflow_id) ==
    /\ LET out == get_workflow_schema(workflows_registry, workflow_id)
       IN  /\ workflows_registry' = out.registry
           /\ lookup_result' = LookupOutcome("get_workflow_schema", workflow_id, out)
           /\ IF out.raised
              THEN UNCHANGED <<schema, order_result, first_order>>
              ELSE /\ schema' = Some(out.value)
                   /\ order_result' = NoResult
                   /\ first_order' = None
    /\ UNCHANGED serverVars
    /\ UNCHANGED <<draft, construct_result, paramVars, create_result, classified,
                   first_classified, generatorVars, persisted, deploying>>

\* a ParameterDefinition(...) call
ConstructParameter(kwargs) ==
    /\ param_args' = Some(kwargs)
    /\ LET built == ParameterDefinition(kwargs)
       IN  param_result' = IF built.ok
                           THEN [status |-> "ok", value |-> built.value]
                           ELSE [status |-> "error", error |-> built.error]
    /\ UNCHANGED serverVars
    /\ UNCHANGED <<graphVars, managerVars, generatorVars, deployVars>>

----------------------------------------------------------------------------
(* Calls on the generator, and a caller giving its steps types and parameters *)

\* parameters in a graph assembled by hand
MaxParameters == 1

ParameterCount(steps) ==
    SeqSum([i \in 1..Len(steps) |-> Len(OrEmpty(steps[i].parameters))])

\* a StepDefinition of the given type, under an id no earlier step has
AddTypedStep(id, type) ==
    /\ construct_result.status = "none"
    /\ id \notin StepIdSet(draft)
    /\ draft' = Append(draft, StepDefinition(id, id, type, None, None, None, None, None))
    /\ UNCHANGED serverVars
    /\ UNCHANGED <<schema, construct_result, order_result, first_order, paramVars,
                   managerVars, generatorVars, deployVars>>

\* append one ParameterDefinition to the parameters of the step added last
AddParameter(kwargs) ==
    /\ construct_result.status = "none"
    /\ draft # <<>>
    /\ ParameterCount(draft) < MaxParameters
    /\ LET built == ParameterDefinition(kwargs)
           n == Len(draft)
       IN  /\ built.ok
           /\ draft' = [draft EXCEPT ![n].parameters =
                           Some(Append(OrEmpty(draft[n].parameters), built.value))]
    /\ UNCHANGED serverVars
    /\ UNCHANGED <<schema, construct_result, order_result, first_order, paramVars,
                   managerVars, generatorVars, deployVars>>

\* what a generate_workflow_files call left behind; a call that raised
\* returned no file
FilesOutcome(workflow, out) ==
    IF out.ok
    THEN [status |-> "ok", graph |-> workflow, files |-> out.value]
    ELSE [status |-> "error", graph |-> workflow, error |-> out.error,
          kind |-> out.kind, files |-> <<>>]

\* the generator of the running interpreter
Generator == [hash_seed |-> hash_seed]

\* the manager of the running interpreter
Manager == [workflows_registry |-> workflows_registry, generator |-> Generator]

\* generator.generate_workflow_files(workflow) on the constructed graph
GenerateWorkflowFiles ==
    /\ schema.some
    /\ LET out == generate_workflow_files(Generator, schema.val)
       IN  /\ files_result' = FilesOutcome(schema.val, out)
           /\ first_files' = IF ~first_files.some /\ out.ok
                             THEN Some([graph |-> schema.val, files |-> out.value])
                             ELSE first_files
    /\ UNCHANGED serverVars
    /\ UNCHANGED <<graphVars, paramVars, managerVars, hash_seed, roundtrip_result,
                   deployVars>>

\* the schema file of the constructed graph is written, read and constructed
RoundTrip ==
    /\ schema.some
    /\ LET out == RoundTripSchema(schema.val)
       IN  roundtrip_result' =
               IF out.ok
               THEN [status |-> "ok", graph |-> schema.val, value |-> out.value]
               ELSE [status |-> "error", graph |-> schema.val, error |-> out.error]
    /\ UNCHANGED serverVars
    /\ UNCHANGED <<graphVars, paramVars, managerVars, hash_seed, files_result,
                   first_files, deployVars>>

\* manager.generate_workflow(workflow_id)
GenerateWorkflow(workflow_id) ==
    /\ LET out == generate_workflow(Manager, workflow_id)
           found == workflow_id \in DOMAIN workflows_registry
           files == generate_workflow_files(Generator, workflows_registry[workflow_id])
       IN  /\ workflows_registry' = out.registry
           /\ lookup_result' = LookupOutcome("generate_workflow", workflow_id, out)
           /\ files_result' = IF found
                              THEN FilesOutcome(workflows_registry[workflow_id], files)
                              ELSE files_result
           /\ first_files' = IF found /\ ~first_files.some /\ ~out.raised
                             THEN Some([graph |-> workflows_registry[workflow_id],
                                        files |-> out.value])
                             ELSE first_files
    /\ UNCHANGED serverVars
    /\ UNCHANGED <<graphVars, paramVars, create_result, classified, first_classified,
                   hash_seed, roundtrip_result, persisted, deploying>>

\* manager.integrate_with_main_api(workflow_id)
IntegrateWithMainApi(workflow_id) ==
    /\ LET out == integrate_with_main_api(Manager, workflow_id)
       IN  /\ workflows_registry' = out.registry
           /\ lookup_result' = LookupOutcome("integrate_with_main_api", workflow_id, out)
    /\ UNCHANGED serverVars
    /\ UNCHANGED <<graphVars, paramVars, create_result, classified, first_classified,
                   generatorVars, persisted, deploying>>

\* a thread enters manager.deploy_workflow(workflow_id): lines 238-244, the
\* look-up and the generation of the files; an unknown id or a generation
\* that fails raises here
DeployBegin(t, workflow_id) ==
    /\ ~deploying[t].some
    /\ LET out == deploy_workflow(Manager, workflow_id)
       IN  /\ workflows_registry' = out.registry
           /\ IF out.raised
              THEN /\ lookup_result' = LookupOutcome("deploy_workflow", workflow_id, out)
                   /\ UNCHANGED deploying
              ELSE /\ deploying' = [deploying EXCEPT ![t] =
                          Some([workflow_id |-> workflow_id,
                                graph |-> workflows_registry[workflow_id],
                                writes |-> out.writes, value |-> out.value, next |-> 1])]
                   /\ UNCHANGED lookup_result
    /\ UNCHANGED serverVars
    /\ UNCHANGED <<graphVars, paramVars, create_result, classified, first_classified,
                   generatorVars, persisted>>

\* the thread writes the next of its files (one of the four with-blocks of
\* lines 246-265); after the last the call returns.  A file keeps, beside its
\* content, the graph it was generated from.
DeployWrite(t) ==
    /\ deploying[t].some
    /\ LET call == deploying[t].val
           write == call.writes[call.next]
       IN  /\ persisted' = [path \in DOMAIN persisted \cup {write.path} |->
                               IF path = write.path
                               THEN [kind |-> write.kind, content |-> write.content,
                                     graph |-> call.graph]
                               ELSE persisted[path]]
           /\ IF call.next = Len(call.writes)
              THEN /\ deploying' = [deploying EXCEPT ![t] = None]
                   /\ lookup_result' = [op |-> "deploy_workflow",
                                        workflow_id |-> call.workflow_id,
                                        status |-> "ok"]
              ELSE /\ deploying' = [deploying EXCEPT ![t] =
                                       Some([call EXCEPT !.next = @ + 1])]
                   /\ UNCHANGED lookup_result
    /\ UNCHANGED serverVars
    /\ UNCHANGED <<graphVars, paramVars, managerVars, generatorVars>>

\* the interpreter is started anew (main() builds a fresh WorkflowManager):
\* the registry is empty again and a seed is drawn; the files stay
StartProcess ==
    /\ hash_seed' \in HashSeeds
    /\ workflows_registry' = <<>>
    /\ create_result' = NoResult
    /\ lookup_result' = NoResult
    /\ deploying' = [t \in Threads |-> None]
    /\ UNCHANGED serverVars
    /\ UNCHANGED <<graphVars, paramVars, classified, first_classified, files_result,
                   first_files, roundtrip_result, persisted>>

----------------------------------------------------------------------------
(* Requests to the live server *)

\* the clock runs over 0..MaxTime
MaxTime == 1

\* execute-step requests per run
MaxRequests == 2

\* a second passes
Tick ==
    /\ now < MaxTime
    /\ now' = now + 1
    /\ UNCHANGED <<execution_sessions, handling, response, placed, succeeded,
                   created_by>>
    /\ UNCHANGED <<graphVars, paramVars, managerVars, generatorVars, deployVars>>

\* POST /api/execute-step arrives from a caller: the handler runs up to its await
ExecuteStepEnter(c, request) ==
    /\ ~handling[c].some
    /\ Cardinality(placed) < MaxRequests
    /\ LET entered == execute_step_enter(execution_sessions, request, now)
       IN  /\ execution_sessions' = entered.sessions
           /\ handling' = [handling EXCEPT ![c] =
                              Some([request |-> request,
                                    session_id |-> entered.session_id,
                                    start_time |-> entered.start_time])]
           /\ placed' = placed \cup
                  {[n |-> Cardinality(placed) + 1, caller |-> c,
                    omitted |-> ~request.session_id.some,
                    session_id |-> entered.session_id]}
           /\ created_by' =
                  IF entered.session_id \in DOMAIN execution_sessions THEN created_by
                  ELSE [id \in DOMAIN created_by \cup {entered.session_id} |->
                           IF id = entered.session_id THEN request.workflow_id
                           ELSE created_by[id]]
    /\ UNCHANGED <<now, response, succeeded>>
    /\ UNCHANGED <<graphVars, paramVars, managerVars, generatorVars, deployVars>>

\* the awaited simulate_step_execution of a caller's request returns or
\* raises, and the handler runs to its response
ExecuteStepResume(c, raised) ==
    /\ handling[c].some
    /\ LET call == handling[c].val
           resumed == execute_step_resume(execution_sessions, call.request,
                          call.session_id, call.start_time, raised, now)
       IN  /\ execution_sessions' = resumed.sessions
           /\ response' = [response EXCEPT ![c] = resumed.response]
           /\ succeeded' =
                  IF raised THEN succeeded
                  ELSE Append(succeeded, [session_id |-> call.session_id,
                                          step_id |-> call.request.step_id])
    /\ handling' = [handling EXCEPT ![c] = None]
    /\ UNCHANGED <<now, placed, created_by>>
    /\ UNCHANGED <<graphVars, paramVars, managerVars, generatorVars, deployVars>>

\* GET /api/session/{session_id} from a caller, for the session id of the
\* response it was sent last
GetSession(c) ==
    /\ ~handling[c].some
    /\ response[c].status = "sent"
    /\ response[c].op = "execute_step"
    /\ response' = [response EXCEPT ![c] =
                       get_session(execution_sessions, response[c].session_id)]
    /\ UNCHANGED <<execution_sessions, now, handling, placed, succeeded, created_by>>
    /\ UNCHANGED <<graphVars, paramVars, managerVars, generatorVars, deployVars>>

----------------------------------------------------------------------------
(* Inputs of the calls *)

\* task keys run over 0..MaxTaskKey
MaxTaskKey == 3

\* words per description offered to the classifier
MaxWords == 2

data_input == <<"d", "a", "t", "a", " ", "i", "n", "p", "u", "t">>
ai_analysis == <<"a", "i", " ", "a", "n", "a", "l", "y", "s", "i", "s">>
report_generation ==
    <<"r", "e", "p", "o", "r", "t", " ", "g", "e", "n", "e", "r", "a", "t", "i", "o", "n">>
run_tests == <<"r", "u", "n", " ", "t", "e", "s", "t", "s">>

TaskPool == {data_input, ai_analysis, report_generation}

\* every dict with keys among 0..MaxTaskKey and descriptions of the pool
TaskMaps == UNION {[keys -> TaskPool] : keys \in SUBSET (0..MaxTaskKey)}

\* a few dicts for runs with several creates
SmallTasks ==
    {(1 :> data_input), (1 :> data_input) @@ (2 :> ai_analysis), (2 :> run_tests)}

\* no name, and two names that normalise to the same workflow id
WorkflowNames == {None, Some(<<"A", " ", "b">>), Some(<<"a", "-", "b">>)}

Vocabulary ==
    {<<"A", "I">>, <<"d", "a", "t", "a">>, <<"R", "u", "n">>, <<"f", "e", "t", "c", "h">>,
     <<"p", "a", "g", "e">>, <<"f", "i", "l", "e">>, <<"e", "m", "a", "i", "l">>,
     <<"r", "e", "p", "o", "r", "t">>, <<"s", "c", "h", "e", "m", "a">>, <<"u", "r", "l">>,
     <<"c", "r", "a", "w", "l">>}

\* the descriptions of 1..n words of the vocabulary, separated by one blank
RECURSIVE Phrases(_)
Phrases(n) ==
    IF n = 1 THEN Vocabulary
    ELSE Phrases(n - 1)
         \cup {p \o <<" ">> \o w : p \in Phrases(n - 1), w \in Vocabulary}

ClassifyPool == {data_input, ai_analysis, run_tests}

StepTypes ==
    {"form_input", "llm_processing", "file_processing", "http_request",
     "data_transformation", "code_execution", "output_generation", "conditional",
     "loop", "parallel"}

\* step ids of a graph whose files are generated
EmitStepIds == {<<"a">>, <<"b", "_", "c">>}

\* keyword arguments of the parameters of such a graph
EmitParameterKwargs ==
    {[name |-> "p", type |-> "string"],
     [name |-> "q", type |-> "email"],
     [name |-> "n", type |-> "number", default |-> Some(PyInt("5"))],
     [name |-> "n", type |-> "number", default |-> Some(PySet(<<"x">>))],
     [name |-> "t", type |-> "string", default |-> Some(PyTuple(<<"x">>))],
     [name |-> "s", type |-> "select"]}

fetch_page == <<"f", "e", "t", "c", "h", " ", "p", "a", "g", "e">>

\* task dicts whose steps name custom handlers
RenderTasks ==
    {(1 :> run_tests), (1 :> run_tests) @@ (2 :> fetch_page),
     (1 :> fetch_page) @@ (2 :> run_tests)}

\* the id create gives a workflow without a name, and two that are never registered
LookupIds == {DeriveWorkflowId(None), <<"x">>, <<>>}

\* task dicts created under one id by the deploying threads
DeployTasks == {(1 :> data_input), (1 :> run_tests)}

\* descriptions that spell the names of the categories no branch assigns
file_processing_desc ==
    <<"f", "i", "l", "e", " ", "p", "r", "o", "c", "e", "s", "s", "i", "n", "g">>
output_generation_desc ==
    <<"o", "u", "t", "p", "u", "t", " ", "g", "e", "n", "e", "r", "a", "t", "i", "o", "n">>
conditional_desc == <<"c", "o", "n", "d", "i", "t", "i", "o", "n", "a", "l">>
loop_desc == <<"l", "o", "o", "p">>
parallel_desc == <<"p", "a", "r", "a", "l", "l", "e", "l">>

CategoryNames ==
    {file_processing_desc, output_generation_desc, conditional_desc, loop_desc,
     parallel_desc}

\* one task dict per such description, and one holding all of them
CategoryTasks ==
    {(1 :> task_desc) : task_desc \in CategoryNames}
    \cup {(1 :> file_processing_desc) @@ (2 :> output_generation_desc)
          @@ (3 :> conditional_desc) @@ (4 :> loop_desc) @@ (5 :> parallel_desc)}

\* the requests the callers send: two workflows, two steps, session_id left
\* out or given
test_1 == <<"t", "e", "s", "t", "_", "1">>
report_2 == <<"r", "e", "p", "o", "r", "t", "_", "2">>

ServerRequests ==
    {StepExecutionRequest(<<"a", "i">>, test_1, ("llm_provider" :> "openai"), None),
     StepExecutionRequest(<<"w">>, report_2, ("llm_provider" :> "openai"), None),
     StepExecutionRequest(<<"w">>, test_1, ("llm_provider" :> "openai"), Some(<<"m">>)),
     StepExecutionRequest(<<"a", "i">>, report_2, ("llm_provider" :> "openai"),
                          Some(<<"m">>))}

ParameterTypes ==
    {"string", "number", "boolean", "file", "select", "multiselect", "textarea",
     "json", "date", "url", "email"}

\* keyword arguments: options, required and default may each be left out
ParameterKwargs ==
    {[name |-> "p", type |-> ty] @@ opt @@ req @@ dflt :
        ty \in ParameterTypes,
        opt \in {<<>>, [options |-> None], [options |-> Some(<<>>)],
                 [options |-> Some(<<"x">>)], [options |-> Some(<<"x", "y">>)]},
        req \in {<<>>, [required |-> TRUE], [required |-> FALSE]},
        dflt \in {<<>>, [default |-> Some(PyStr("x"))], [default |-> Some(PyStr("z"))],
                  [default |-> Some(PyInt("5"))]}}

----------------------------------------------------------------------------
(* Specifications *)

Init ==
    /\ draft = <<>>
    /\ schema = None
    /\ construct_result = NoResult
    /\ order_result = NoResult
    /\ param_args = None
    /\ param_result = NoResult
    /\ workflows_registry = <<>>
    /\ create_result = NoResult
    /\ classified = None
    /\ first_classified = None
    /\ first_order = None
    /\ hash_seed \in HashSeeds
    /\ files_result = NoResult
    /\ first_files = None
    /\ roundtrip_result = NoResult
    /\ lookup_result = NoResult
    /\ persisted = <<>>
    /\ deploying = [t \in Threads |-> None]
    /\ execution_sessions = <<>>
    /\ now = 0
    /\ handling = [c \in Callers |-> None]
    /\ response = [c \in Callers |-> NoResult]
    /\ placed = {}
    /\ succeeded = <<>>
    /\ created_by = <<>>

\* a caller assembles a graph by hand, constructs it and asks for its order
NextGraph ==
    \/ \E id \in StepIds : AddStep(id)
    \/ \E dep \in StepIds : AddDependency(dep)
    \/ Construct
    \/ GetExecutionOrder

SpecGraph == Init /\ [][NextGraph]_vars

\* the same, after workflows were created on a manager (the two parts share no
\* state, so every interleaving has the same outcome as this order)
NextConstruct ==
    \/ \E id \in StepIds : AddStep(id)
    \/ \E dep \in StepIds : AddDependency(dep)
    \/ Construct
    \/ /\ draft = <<>>
       /\ construct_result.status = "none"
       /\ \E tasks \in SmallTasks : CreateWorkflowFromTasks(tasks, None, None)

SpecConstruct == Init /\ [][NextConstruct]_vars

\* ParameterDefinition objects are constructed
NextParameter == \E kwargs \in ParameterKwargs : ConstructParameter(kwargs)

SpecParameter == Init /\ [][NextParameter]_vars

\* one description is classified
NextClassifier ==
    /\ ~classified.some
    /\ \E task_desc \in Phrases(MaxWords) : Classify(task_desc)

SpecClassifier == Init /\ [][NextClassifier]_vars

\* one workflow is created from a task dict, fetched and ordered
NextTasks ==
    \/ /\ create_result.status = "none"
       /\ \E tasks \in TaskMaps : CreateWorkflowFromTasks(tasks, None, None)
    \/ \E workflow_id \in DOMAIN workflows_registry : GetWorkflowSchema(workflow_id)
    \/ GetExecutionOrder

SpecTasks == Init /\ [][NextTasks]_vars

\* workflows are created and descriptions classified in any order
NextManager ==
    \/ \E tasks \in SmallTasks, workflow_name \in WorkflowNames :
           CreateWorkflowFromTasks(tasks, workflow_name, None)
    \/ \E task_desc \in ClassifyPool : Classify(task_desc)

SpecManager == Init /\ [][NextManager]_vars

\* a caller gives a graph steps of any type with parameters, constructs it,
\* generates its files and round-trips its schema file
NextEmit ==
    \/ \E id \in EmitStepIds, type \in StepTypes : AddTypedStep(id, type)
    \/ \E kwargs \in EmitParameterKwargs : AddParameter(kwargs)
    \/ Construct
    \/ GenerateWorkflowFiles
    \/ RoundTrip

SpecEmit == Init /\ [][NextEmit]_vars

\* workflows are created and generated, in one run of the interpreter or in several
NextRender ==
    \/ \E tasks \in RenderTasks : CreateWorkflowFromTasks(tasks, None, None)
    \/ \E workflow_id \in DOMAIN workflows_registry : GenerateWorkflow(workflow_id)
    \/ StartProcess

SpecRender == Init /\ [][NextRender]_vars

\* the calls that look an id up, with ids that are registered and ids that are not
NextLookup ==
    \/ CreateWorkflowFromTasks((1 :> data_input), None, None)
    \/ \E workflow_id \in LookupIds :
           \/ GetWorkflowSchema(workflow_id)
           \/ GenerateWorkflow(workflow_id)
           \/ IntegrateWithMainApi(workflow_id)
           \/ DeployBegin("t1", workflow_id)
    \/ DeployWrite("t1")

SpecLookup == Init /\ [][NextLookup]_vars

\* threads create and deploy under one workflow id
NextDeploy ==
    \/ \E tasks \in DeployTasks : CreateWorkflowFromTasks(tasks, None, None)
    \/ \E t \in Threads :
           \/ DeployBegin(t, DeriveWorkflowId(None))
           \/ DeployWrite(t)

SpecDeploy == Init /\ [][NextDeploy]_vars

\* one description is classified and one workflow is created, the
\* descriptions naming every category of StepType among them
NextCategories ==
    \/ /\ ~classified.some
       /\ \E task_desc \in Phrases(MaxWords) \cup CategoryNames : Classify(task_desc)
    \/ /\ create_result.status = "none"
       /\ \E tasks \in CategoryTasks : CreateWorkflowFromTasks(tasks, None, None)

SpecCategories == Init /\ [][NextCategories]_vars

\* callers of the live server send execute-step requests, which overlap at
\* the await, and ask for sessions, while time passes
NextServer ==
    \/ Tick
    \/ \E c \in Callers :
           \/ \E request \in ServerRequests : ExecuteStepEnter(c, request)
           \/ \E raised \in BOOLEAN : ExecuteStepResume(c, raised)
           \/ GetSession(c)

SpecServer == Init /\ [][NextServer]_vars

----------------------------------------------------------------------------
(* Notions the properties are stated in *)

\* the dependency relation declared by a step list: <<x, d>> when a step with
\* id x lists d in its depends_on
DepEdges(steps) ==
    UNION {{<<steps[i].id, d>> : d \in Range(OrEmpty(steps[i].depends_on))} :
              i \in 1..Len(steps)}

Nodes(edges) == {e[1] : e \in edges} \cup {e[2] : e \in edges}

RECURSIVE TransitiveClosure(_)
TransitiveClosure(edges) ==
    LET longer == edges \cup
            {<<x, z>> \in Nodes(edges) \X Nodes(edges) :
                \E y \in Nodes(edges) : <<x, y>> \in edges /\ <<y, z>> \in edges}
    IN  IF longer = edges THEN edges ELSE TransitiveClosure(longer)

\* some step depends on itself through one or more dependencies
HasCycle(steps) ==
    \E x \in StepIdSet(steps) : <<x, x>> \in TransitiveClosure(DepEdges(steps))

\* the ids on a cycle and the ids that depend on one through any chain
OnOrBehindCycle(steps) ==
    LET reach == TransitiveClosure(DepEdges(steps))
    IN  {x \in StepIdSet(steps) :
            \E y \in StepIdSet(steps) :
                /\ <<y, y>> \in reach
                /\ (x = y \/ <<x, y>> \in reach)}

\* some depends_on entry of the list names no step of the list
HasUnknownDependency(steps) ==
    \E e \in DepEdges(steps) : e[2] \notin StepIdSet(steps)

\* the positions <<wave, place>> at which an id occurs in a sequence of waves
Places(waves, id) ==
    {<<w, k>> \in (1..Len(waves)) \X (1..MaxGraphSize + MaxTaskKey + 1) :
        k <= Len(waves[w]) /\ waves[w][k] = id}

WaveOf(waves, id) == (CHOOSE place \in Places(waves, id) : TRUE)[1]

\* waves partition the step ids, every dependency in a strictly earlier wave
IsLayering(steps, waves) ==
    /\ \A w \in 1..Len(waves) : Range(waves[w]) \subseteq StepIdSet(steps)
    /\ \A id \in StepIdSet(steps) : Cardinality(Places(waves, id)) = 1
    /\ \A e \in DepEdges(steps) :
           /\ Places(waves, e[2]) # {}
           /\ WaveOf(waves, e[2]) < WaveOf(waves, e[1])

----------------------------------------------------------------------------
(* Properties of hand-built graphs, under SpecGraph *)

\* C1: for a constructed graph whose dependency relation has no cycle,
\* get_execution_order returns waves in which every step id occurs exactly
\* once and every dependency of a step lies in a strictly earlier wave.
C1_AcyclicGraphIsLayered ==
    (schema.some /\ order_result.status # "none" /\ ~HasCycle(schema.val.steps))
        => /\ order_result.status = "waves"
           /\ IsLayering(schema.val.steps, order_result.waves)

\* C2: for a constructed graph with a dependency cycle, get_execution_order
\* fails with the circular-dependency error, and the set it reports is the
\* set of all ids on a cycle or depending on one.
C2_CycleErrorNamesAllUnresolved ==
    (schema.some /\ order_result.status # "none" /\ HasCycle(schema.val.steps))
        => /\ order_result.status = "error"
           /\ order_result.remaining = OnOrBehindCycle(schema.val.steps)

\* C4: no constructed graph has a cyclic dependency relation (a cycle, a
\* self-dependency included, is rejected by the constructor).
C4_ConstructedGraphIsAcyclic ==
    schema.some => ~HasCycle(schema.val.steps)

\* C5: in a constructed graph the step ids are pairwise distinct, and so are
\* the parameter names within each step.
C5_IdentifiersAreDistinct ==
    schema.some =>
        LET steps == schema.val.steps
        IN  /\ \A i, k \in 1..Len(steps) : i # k => steps[i].id # steps[k].id
            /\ \A i \in 1..Len(steps) :
                   LET ps == OrEmpty(steps[i].parameters)
                   IN  \A a, b \in 1..Len(ps) : a # b => ps[a].name # ps[b].name

----------------------------------------------------------------------------
(* Construction with an unknown dependency, under SpecConstruct *)

\* the steps create_workflow_from_tasks hands to WorkflowSchema for a task dict
StepsOfTasks(tasks) == BuildSteps(<<>>, tasks, SortedKeys(DOMAIN tasks), <<>>).value

\* an error record names a step of the list and an entry of its depends_on
\* that is the id of no step
NamesUnknownDependency(result, steps) ==
    /\ result.status = "error"
    /\ result.error = "non-existent step"
    /\ <<result.step, result.dep>> \in DepEdges(steps)
    /\ result.dep \notin StepIdSet(steps)

HandBuiltRejected ==
    (construct_result.status # "none" /\ HasUnknownDependency(draft))
        => /\ NamesUnknownDependency(construct_result, draft)
           /\ ~schema.some

CreateRejected ==
    (create_result.status # "none" /\ HasUnknownDependency(StepsOfTasks(create_result.tasks)))
        => NamesUnknownDependency(create_result, StepsOfTasks(create_result.tasks))

FailedCreateStoresNothing ==
    (create_result' # create_result /\ create_result'.status = "error")
        => workflows_registry' = workflows_registry

\* C3: constructing a WorkflowSchema in which a depends_on entry names no step
\* of the graph fails with the unknown-dependency error naming the step and
\* the missing id, no graph is returned, and a create_workflow_from_tasks
\* that fails this way leaves the registry as it was.
C3_UnknownDependencyRejected ==
    /\ [](HandBuiltRejected /\ CreateRejected)
    /\ [][FailedCreateStoresNothing]_vars

\* a create failed on step_2 -> step_1 with a workflow registered before it,
\* and a hand-built graph was rejected for its second depends_on entry
C3_Witness ==
    /\ create_result.status = "error"
    /\ create_result.dep = <<"s", "t", "e", "p", "_", "1">>
    /\ DOMAIN workflows_registry # {}
    /\ construct_result.status = "error"
    /\ \E i \in 1..Len(draft) :
           /\ Len(OrEmpty(draft[i].depends_on)) = 2
           /\ draft[i].depends_on.val[1] \in StepIdSet(draft)
           /\ draft[i].depends_on.val[2] = construct_result.dep

----------------------------------------------------------------------------
(* ParameterDefinition, under SpecParameter *)

\* C6: a ParameterDefinition of type select or multiselect is constructed
\* exactly when it is given a non-empty options list; with options omitted,
\* None or empty the constructor fails with the options-required error.
C6_SelectRequiresOptions ==
    (param_args.some /\ param_args.val.type \in {"select", "multiselect"})
        => LET kwargs == param_args.val
               given == "options" \in DOMAIN kwargs /\ Truthy(kwargs.options)
           IN  IF given
               THEN param_result.status = "ok"
               ELSE /\ param_result.status = "error"
                    /\ param_result.error = "Options required"

----------------------------------------------------------------------------
(* create_workflow_from_tasks on one task dict, under SpecTasks *)

\* "step_<k>" written out, for one-digit k
ExpectedStepId(k) == <<"s", "t", "e", "p", "_", Digits[k + 1]>>

ExampleTasks == (1 :> data_input) @@ (2 :> ai_analysis) @@ (3 :> report_generation)

\* C7: for tasks with keys 1..n the create succeeds and registers the steps
\* step_1..step_n in that order, step_1 without dependency and step_k
\* depending exactly on step_(k-1); get_execution_order of the registered
\* graph returns the n singleton waves [step_1], ..., [step_n]; for the three
\* example descriptions step_2 is llm_processing with a required llm_provider
\* parameter.
C7_SequentialTasksFormChain ==
    (create_result.status # "none"
        /\ \E n \in 1..(MaxTaskKey + 1) : DOMAIN create_result.tasks = 1..n)
        => /\ create_result.status = "ok"
           /\ LET tasks == create_result.tasks
                  n == Cardinality(DOMAIN tasks)
                  steps == workflows_registry[create_result.workflow_id].steps
              IN  /\ Len(steps) = n
                  /\ \A k \in 1..n :
                         /\ steps[k].id = ExpectedStepId(k)
                         /\ steps[k].description.val[2] = tasks[k]
                         /\ OrEmpty(steps[k].depends_on) =
                                IF k = 1 THEN <<>> ELSE <<ExpectedStepId(k - 1)>>
                  /\ (schema.some /\ order_result.status # "none")
                         => /\ order_result.status = "waves"
                            /\ order_result.waves = [k \in 1..n |-> <<ExpectedStepId(k)>>]
                  /\ tasks = ExampleTasks
                         => /\ steps[2].type = "llm_processing"
                            /\ \E i \in 1..Len(steps[2].parameters.val) :
                                   /\ steps[2].parameters.val[i].name = "llm_provider"
                                   /\ steps[2].parameters.val[i].required

\* the example dict was created, fetched and ordered
C7_Witness ==
    /\ create_result.status = "ok"
    /\ create_result.tasks = ExampleTasks
    /\ schema.some
    /\ order_result.status = "waves"
    /\ Len(order_result.waves) = 3

\* C8: whatever distinct integer keys the task dict has, the create succeeds
\* and registers one step per task, each step after the first depending on
\* the step immediately before it.
C8_AnyKeysFormChain ==
    create_result.status # "none"
        => /\ create_result.status = "ok"
           /\ LET steps == workflows_registry[create_result.workflow_id].steps
              IN  /\ Len(steps) = Cardinality(DOMAIN create_result.tasks)
                  /\ \A i \in 2..Len(steps) :
                         OrEmpty(steps[i].depends_on) = <<steps[i - 1].id>>

----------------------------------------------------------------------------
(* The classifier, under SpecClassifier and SpecManager *)

\* C9: the category is decided by the first keyword table, in the order
\* inference, input, execution, external request, that has a keyword
\* occurring in the lower-cased description, and is data_transformation when
\* none has; every description is classified.
C9_PriorityOrderedClassification ==
    classified.some
        => LET task_lower == Lower(classified.val.task_desc)
               result == classified.val.result
               inference == AnyKeyword(task_lower, llm_keywords)
               input == AnyKeyword(task_lower, input_keywords)
               execution == AnyKeyword(task_lower, execution_keywords)
               external == AnyKeyword(task_lower, http_keywords)
           IN  /\ result.ok
               /\ inference => result.step_type = "llm_processing"
               /\ (~inference /\ input) => result.step_type = "form_input"
               /\ (~inference /\ ~input /\ execution) => result.step_type = "code_execution"
               /\ (~inference /\ ~input /\ ~execution /\ external)
                      => result.step_type = "http_request"
               /\ (~inference /\ ~input /\ ~execution /\ ~external)
                      => result.step_type = "data_transformation"

\* a description with keywords of three tables, one of them in upper case,
\* was classified as llm_processing
C9_Witness ==
    /\ classified.some
    /\ Contains(classified.val.task_desc, <<"A", "I">>)
    /\ AnyKeyword(Lower(classified.val.task_desc), input_keywords)
    /\ classified.val.result.step_type = "llm_processing"

----------------------------------------------------------------------------
(* C15 *)

----------------------------------------------------------------------------
(* C19 *)

\* the default of a parameter matches its declared type
DefaultMatchesKind(p) ==
    \/ ~p.default.some
    \/ CASE p.type \in {"string", "textarea", "url", "email", "date", "file"} ->
                p.default.val.py = "str"
          [] p.type = "number" -> p.default.val.py \in {"int", "float"}
          [] p.type = "boolean" -> p.default.val.py = "bool"
          [] p.type = "select" ->
                /\ p.default.val.py = "str"
                /\ p.default.val.val \in Range(OrEmpty(p.options))
          [] p.type = "multiselect" ->
                /\ p.default.val.py = "list"
                /\ Range(p.default.val.val) \subseteq Range(OrEmpty(p.options))
          [] OTHER -> TRUE

\* C19: a ParameterDefinition whose default does not match its declared type
\* (a number with a text default, a select whose default is not an option)
\* is rejected, so every parameter that was constructed has a matching default.
C19_DefaultMatchesDeclaredKind ==
    param_result.status = "ok" => DefaultMatchesKind(param_result.value)

----------------------------------------------------------------------------
(* C20 *)

\* C20: a classification carries the prompt-template configuration exactly
\* when its category is llm_processing, and a handler reference exactly when
\* its category is code_execution or http_request.
C20_ConfigurationBlockIffCategory ==
    (classified.some /\ classified.val.result.ok) =>
        LET result == classified.val.result
        IN  /\ result.llm_config.some <=> result.step_type = "llm_processing"
            /\ (result.custom_handler.some /\ Len(result.custom_handler.val) > 0)
                   <=> result.step_type \in {"code_execution", "http_request"}

\* a description was classified as an external request and names its handler
C20_Witness ==
    /\ classified.some
    /\ classified.val.result.ok
    /\ classified.val.result.step_type = "http_request"
    /\ classified.val.result.custom_handler.some
    /\ ~classified.val.result.llm_config.some

----------------------------------------------------------------------------
(* C11, C12, C17, C18: the files generated from a graph *)

\* the (step id, parameter name) pairs of a graph
GraphPairs(workflow) ==
    UNION {{<<workflow.steps[i].id, OrEmpty(workflow.steps[i].parameters)[k].name>> :
               k \in 1..Len(OrEmpty(workflow.steps[i].parameters))} :
           i \in 1..Len(workflow.steps)}

\* the pairs the request models of the plugin have a field for
PluginPairs(plugin) ==
    UNION {{<<plugin.request_models[i].step_id, plugin.request_models[i].fields[k].name>> :
               k \in 1..Len(plugin.request_models[i].fields)} :
           i \in 1..Len(plugin.request_models)}

\* the pairs the form states of the component have a field for
ComponentPairs(component) ==
    UNION {{<<component.steps[i].step_id, component.steps[i].fields[k].name>> :
               k \in 1..Len(component.steps[i].fields)} :
           i \in 1..Len(component.steps)}

\* some parameter of the graph has a default json cannot write
HasUnserializableDefault(workflow) ==
    \E i \in 1..Len(workflow.steps) :
        \E k \in 1..Len(OrEmpty(workflow.steps[i].parameters)) :
            LET param == OrEmpty(workflow.steps[i].parameters)[k]
            IN  param.default.some /\ ~ToJson(param.default.val).ok

\* the step types the handler template has no branch of their own for
UnspecialisedTypes ==
    {"data_transformation", "output_generation", "conditional", "loop", "parallel"}

\* C11: when the emitter of one kind of file raises, the files of the kinds
\* whose emitters do not raise are still returned, and the failure of the kind
\* that raised is recorded: after every generate_workflow_files call, each
\* kind whose emitter succeeds on the graph is among the returned files.
C11_FailureDoesNotAbortBatch ==
    files_result.status # "none" =>
        \A k \in 1..Len(FileKinds) :
            LET emitted == Emit(FileKinds[k], Generator, files_result.graph)
                name == FileName(files_result.graph.metadata.id, FileKinds[k])
            IN  emitted.ok =>
                    /\ name \in DOMAIN files_result.files
                    /\ files_result.files[name] = emitted.value

\* C12: the plugin and the component refer to the same (step id, parameter
\* name) pairs: every parameter of every step, of whatever type, is a field
\* of the step's request model and a field of the step's form state, and
\* neither file has a pair the other lacks.
C12_ServerAndClientAgreeOnParameters ==
    files_result.status = "ok" =>
        LET id == files_result.graph.metadata.id
            plugin == files_result.files[FileName(id, "_plugin.py")]
            component == files_result.files[FileName(id, "_workflow.tsx")]
        IN  /\ PluginPairs(plugin) = GraphPairs(files_result.graph)
            /\ ComponentPairs(component) = GraphPairs(files_result.graph)

\* C17: writing the schema file of a graph and constructing a WorkflowSchema
\* from what is read back succeeds and gives a graph equal to the original in
\* every field.
C17_SchemaFileRoundTrips ==
    roundtrip_result.status # "none" =>
        /\ roundtrip_result.status = "ok"
        /\ roundtrip_result.value = roundtrip_result.graph

\* C18: generation never fails because of the type of a step: it fails only
\* for a default that json cannot write, and when it succeeds every step of a
\* type without a branch of its own has the generic handler body, which
\* echoes the request.
C18_EveryStepTypeIsRendered ==
    files_result.status # "none" =>
        /\ files_result.status = "error" => HasUnserializableDefault(files_result.graph)
        /\ files_result.status = "ok" =>
               LET id == files_result.graph.metadata.id
                   plugin == files_result.files[FileName(id, "_plugin.py")]
                   steps == files_result.graph.steps
               IN  /\ Len(plugin.handlers) = Len(steps)
                   /\ \A i \in 1..Len(steps) :
                          /\ plugin.handlers[i].name = steps[i].id
                          /\ steps[i].type \in UnspecialisedTypes =>
                                 /\ plugin.handlers[i].body.branch = "generic"
                                 /\ plugin.handlers[i].body.request_data = "request.dict()"
                          /\ steps[i].type \notin UnspecialisedTypes =>
                                 plugin.handlers[i].body.branch = steps[i].type

\* files were generated for a graph with a loop step and a parallel step, one
\* of them with a parameter
C18_Witness ==
    /\ files_result.status = "ok"
    /\ \E i, j \in 1..Len(files_result.graph.steps) :
           /\ files_result.graph.steps[i].type = "loop"
           /\ files_result.graph.steps[j].type = "parallel"
           /\ Truthy(files_result.graph.steps[j].parameters)

----------------------------------------------------------------------------
(* C13 *)

\* C13: generating the files of the same graph twice gives the same content
\* for every kind of file, the order of the custom handler stubs included.
C13_GenerationIsDeterministic ==
    (/\ first_files.some
     /\ files_result.status = "ok"
     /\ files_result.graph = first_files.val.graph)
        => files_result.files = first_files.val.files

----------------------------------------------------------------------------
(* C14 *)

\* C14: get_workflow_schema, generate_workflow, deploy_workflow and
\* integrate_with_main_api called with an id that is not in the registry fail
\* with the not-found error, and the failing call leaves the registry and
\* every written file as they were.
C14_UnknownIdFailsWithoutEffect ==
    [][(/\ lookup_result' # lookup_result
        /\ lookup_result'.workflow_id \notin DOMAIN workflows_registry)
           => /\ lookup_result'.status = "error"
              /\ lookup_result'.error = "not found in registry"
              /\ workflows_registry' = workflows_registry
              /\ persisted' = persisted
              /\ deploying' = deploying]_vars

\* deploy_workflow has failed on an unknown id while a workflow was
\* registered and its files were written
C14_Witness ==
    /\ lookup_result.status = "error"
    /\ lookup_result.op = "deploy_workflow"
    /\ lookup_result.workflow_id \notin DOMAIN workflows_registry
    /\ DOMAIN workflows_registry # {}
    /\ Cardinality(DOMAIN persisted) = Len(FileKinds)

----------------------------------------------------------------------------
(* C16 *)

\* the paths written for a workflow id
PathsOf(workflow_id) == {path \in DOMAIN persisted : path[2] = workflow_id}

\* the written files of the id are what one graph generates
FromOneGraph(workflow_id) ==
    PathsOf(workflow_id) # {} =>
        \E chosen \in PathsOf(workflow_id) :
            \A path \in PathsOf(workflow_id) :
                LET emitted == Emit(persisted[path].kind, Generator, persisted[chosen].graph)
                IN  emitted.ok /\ persisted[path].content = emitted.value

\* C16: concurrent create_workflow_from_tasks and deploy_workflow calls on one
\* id behave as if serialized: at every moment the plugin, component, config
\* and schema files written for an id are all generated from one and the same
\* graph; and a registry entry or file of an id comes from a call on that id.
C16_DeployedFilesAreOfOneVersion ==
    /\ \A workflow_id \in {path[2] : path \in DOMAIN persisted} : FromOneGraph(workflow_id)
    /\ \A path \in DOMAIN persisted : persisted[path].graph.metadata.id = path[2]
    /\ \A workflow_id \in DOMAIN workflows_registry :
           workflows_registry[workflow_id].metadata.id = workflow_id

----------------------------------------------------------------------------
(* C21, C22, C23: what the classifier returns per category, under SpecClassifier *)

\* C21: a description classified as llm_processing is given exactly one
\* parameter, the required select parameter llm_provider with the options
\* openai, anthropic, google, and a prompt-template configuration whose
\* template embeds the description as it was given and which declares
\* exactly one template variable, the placeholder of the upstream input.
C21_InferenceStepCarriesProviderAndTemplate ==
    (classified.some /\ classified.val.result.ok
        /\ classified.val.result.step_type = "llm_processing")
        => LET result == classified.val.result
               provider == result.parameters[1]
               config == result.llm_config.val
           IN  /\ Len(result.parameters) = 1
               /\ provider.name = "llm_provider"
               /\ provider.type = "select"
               /\ provider.required = TRUE
               /\ provider.options = Some(<<"openai", "anthropic", "google">>)
               /\ result.llm_config.some
               /\ Len(config.user_prompt_template) = 3
               /\ config.user_prompt_template[2] = classified.val.task_desc
               /\ config.user_prompt_template[3] = "\n\nInput data: {input_data}"
               /\ config.template_variables = Some(<<"input_data">>)

\* a description with an upper-case inference keyword was classified and
\* given the provider parameter and a template
C21_Witness ==
    /\ classified.some
    /\ Contains(classified.val.task_desc, <<"A", "I">>)
    /\ classified.val.result.ok
    /\ classified.val.result.step_type = "llm_processing"
    /\ Len(classified.val.result.parameters) = 1
    /\ classified.val.result.llm_config.some

\* C22: a description classified as code_execution is given no parameter
\* and the handler reference execute_ followed by the description in lower
\* case with every blank replaced by an underscore; the reference holds no
\* upper-case letter and no blank.
C22_ExecutionStepNamesNormalisedHandler ==
    (classified.some /\ classified.val.result.ok
        /\ classified.val.result.step_type = "code_execution")
        => LET result == classified.val.result
               task_desc == classified.val.task_desc
               prefix == <<"e", "x", "e", "c", "u", "t", "e", "_">>
               handler == result.custom_handler.val
           IN  /\ result.parameters = <<>>
               /\ result.custom_handler.some
               /\ Len(handler) = Len(prefix) + Len(task_desc)
               /\ SubSeq(handler, 1, Len(prefix)) = prefix
               /\ \A i \in 1..Len(task_desc) :
                      handler[Len(prefix) + i] =
                          IF task_desc[i] = " " THEN "_" ELSE LowerChar(task_desc[i])
               /\ \A i \in 1..Len(handler) :
                      handler[i] \notin Range(UpperAlpha) \cup {" "}

\* a description with an upper-case letter and a blank was classified as
\* code_execution
C22_Witness ==
    /\ classified.some
    /\ classified.val.result.ok
    /\ classified.val.result.step_type = "code_execution"
    /\ \E i \in 1..Len(classified.val.task_desc) :
           classified.val.task_desc[i] \in Range(UpperAlpha)
    /\ \E i \in 1..Len(classified.val.task_desc) : classified.val.task_desc[i] = " "
    /\ classified.val.result.custom_handler.some

\* the reference is the prefix followed by the description in lower case
\* with every blank replaced by an underscore
IsNormalisedReference(handler, prefix, task_desc) ==
    /\ Len(handler) = Len(prefix) + Len(task_desc)
    /\ SubSeq(handler, 1, Len(prefix)) = prefix
    /\ \A i \in 1..Len(task_desc) :
           handler[Len(prefix) + i] =
               IF task_desc[i] = " " THEN "_" ELSE LowerChar(task_desc[i])

\* the URL parameter of the external-request category is among the parameters
HasUrlParameter(parameters) ==
    \E i \in 1..Len(parameters) :
        parameters[i].name = "page_url" /\ parameters[i].type = "url"

\* C23: a description classified as http_request is always given the
\* normalised handler reference handle_..., and the required URL parameter
\* exactly when it mentions url, page or crawl; no description of another
\* category is given the URL parameter, whatever it mentions.
C23_ExternalRequestNamesHandlerAndUrl ==
    (classified.some /\ classified.val.result.ok)
        => LET result == classified.val.result
               task_desc == classified.val.task_desc
               task_lower == Lower(task_desc)
               mentions == \/ Contains(task_lower, <<"u", "r", "l">>)
                           \/ Contains(task_lower, <<"p", "a", "g", "e">>)
                           \/ Contains(task_lower, <<"c", "r", "a", "w", "l">>)
           IN  /\ result.step_type = "http_request"
                      => /\ result.custom_handler.some
                         /\ IsNormalisedReference(result.custom_handler.val,
                                <<"h", "a", "n", "d", "l", "e", "_">>, task_desc)
                         /\ mentions => /\ Len(result.parameters) = 1
                                        /\ HasUrlParameter(result.parameters)
                                        /\ result.parameters[1].required = TRUE
                         /\ ~mentions => result.parameters = <<>>
               /\ HasUrlParameter(result.parameters)
                      => result.step_type = "http_request"

\* a description whose only hint at an address is the word crawl was
\* classified as http_request and given the URL parameter
C23_Witness ==
    /\ classified.some
    /\ classified.val.result.ok
    /\ classified.val.result.step_type = "http_request"
    /\ ~Contains(Lower(classified.val.task_desc), <<"u", "r", "l">>)
    /\ ~Contains(Lower(classified.val.task_desc), <<"p", "a", "g", "e">>)
    /\ HasUrlParameter(classified.val.result.parameters)
    /\ classified.val.result.custom_handler.some

----------------------------------------------------------------------------
(* C24, C25, C26: the waves of get_execution_order, under SpecGraph *)

\* the ids a step id depends on
DepsOf(steps, id) == {e[2] : e \in {edge \in DepEdges(steps) : edge[1] = id}}

\* the ids in the waves before wave k
Earlier(waves, k) == UNION {Range(waves[w]) : w \in 1..(k - 1)}

\* the number of predecessors on the longest dependency chain ending at id,
\* for a relation without a cycle
RECURSIVE Depth(_, _)
Depth(steps, id) ==
    IF DepsOf(steps, id) = {} THEN 0
    ELSE LET depths == {Depth(steps, d) : d \in DepsOf(steps, id)}
         IN  1 + (CHOOSE m \in depths : \A other \in depths : m >= other)

\* C24: every wave returned by get_execution_order is maximal: it holds
\* every step that is in no earlier wave and whose dependencies all lie in
\* earlier waves; counting waves from 0, a step is in wave k exactly when
\* the longest dependency chain ending at it has k predecessors.
C24_EveryWaveIsMaximal ==
    (schema.some /\ order_result.status = "waves")
        => LET steps == schema.val.steps
               waves == order_result.waves
           IN  /\ \A k \in 1..Len(waves) :
                      Range(waves[k]) =
                          {id \in StepIdSet(steps) :
                              /\ id \notin Earlier(waves, k)
                              /\ DepsOf(steps, id) \subseteq Earlier(waves, k)}
               /\ \A id \in StepIdSet(steps) :
                      \A k \in 1..Len(waves) :
                          id \in Range(waves[k]) <=> Depth(steps, id) = k - 1
               /\ \A id \in StepIdSet(steps) : Depth(steps, id) < Len(waves)

\* waves were returned for a graph with two independent steps and a third
\* that depends on one of them
C24_Witness ==
    /\ schema.some
    /\ order_result.status = "waves"
    /\ Len(order_result.waves) >= 2
    /\ Len(order_result.waves[1]) >= 2
    /\ \E id \in StepIdSet(schema.val.steps) : Depth(schema.val.steps, id) >= 1

\* the first place of an id in the step list
PlaceInList(steps, id) ==
    CHOOSE i \in 1..Len(steps) :
        steps[i].id = id /\ \A k \in 1..(i - 1) : steps[k].id # id

\* C25: within every wave returned by get_execution_order the step ids
\* stand in the order in which their steps appear in the step list of the
\* graph.
C25_WaveKeepsListOrder ==
    (schema.some /\ order_result.status = "waves")
        => LET steps == schema.val.steps
               waves == order_result.waves
           IN  \A k \in 1..Len(waves) :
                   \A i, j \in 1..Len(waves[k]) :
                       i < j => PlaceInList(steps, waves[k][i])
                                    < PlaceInList(steps, waves[k][j])

\* a wave lists b before a because the step list does
C25_Witness ==
    /\ schema.some
    /\ order_result.status = "waves"
    /\ \E k \in 1..Len(order_result.waves) :
           /\ Len(order_result.waves[k]) >= 2
           /\ order_result.waves[k][1] = <<"b">>
           /\ order_result.waves[k][2] = <<"a">>
    /\ PlaceInList(schema.val.steps, <<"b">>) < PlaceInList(schema.val.steps, <<"a">>)

\* C26: get_execution_order raises its circular-dependency error only for
\* graphs whose dependency relation has a cycle; for every constructed graph
\* without one, two steps sharing an id included, it returns waves.
C26_CycleErrorOnlyForCycles ==
    (schema.some /\ order_result.status = "error")
        => HasCycle(schema.val.steps)

----------------------------------------------------------------------------
(* C27: the registry over a sequence of creates, under SpecManager *)

\* C27: a create that returns an id leaves the registry mapping that id to
\* the graph it built from its tasks, replacing an entry the id already
\* had; a create that fails leaves the registry as it was; no create changes
\* the entry of another id.  So after any sequence of creates every id maps
\* to the graph of the most recent successful create that returned it.
C27_RegistryHoldsLatestCreate ==
    [][(workflows_registry' # workflows_registry \/ create_result' # create_result)
          => IF create_result'.status = "ok"
             THEN LET id == create_result'.workflow_id
                  IN  /\ DOMAIN workflows_registry' = DOMAIN workflows_registry \cup {id}
                      /\ workflows_registry'[id].metadata.id = id
                      /\ workflows_registry'[id].steps = StepsOfTasks(create_result'.tasks)
                      /\ \A w \in DOMAIN workflows_registry \ {id} :
                             workflows_registry'[w] = workflows_registry[w]
             ELSE workflows_registry' = workflows_registry]_vars

\* a create has replaced the entry of its id, with another id registered,
\* and the entry holds the graph of the tasks of that create
C27_Witness ==
    /\ create_result.status = "ok"
    /\ create_result.replaced
    /\ Cardinality(DOMAIN workflows_registry) >= 2
    /\ Len(workflows_registry[create_result.workflow_id].steps) = 2
    /\ workflows_registry[create_result.workflow_id].steps
           = StepsOfTasks(create_result.tasks)

----------------------------------------------------------------------------
(* C28: the categories the classifier assigns, under SpecCategories *)

AssignedCategories ==
    {"llm_processing", "form_input", "code_execution", "http_request",
     "data_transformation"}

\* C28: the classifier returns one of the five categories llm_processing,
\* form_input, code_execution, http_request and data_transformation for
\* every description, so no step of a graph built by
\* create_workflow_from_tasks is of type file_processing, output_generation,
\* conditional, loop or parallel.
C28_OnlyFiveCategoriesAssigned ==
    /\ (classified.some /\ classified.val.result.ok)
           => classified.val.result.step_type \in AssignedCategories
    /\ \A workflow_id \in DOMAIN workflows_registry :
           \A i \in 1..Len(workflows_registry[workflow_id].steps) :
               workflows_registry[workflow_id].steps[i].type \in AssignedCategories

\* a workflow was created from the five descriptions that spell the other
\* categories, and a description mentioning a file was classified as form_input
C28_Witness ==
    /\ create_result.status = "ok"
    /\ Len(workflows_registry[create_result.workflow_id].steps) = 5
    /\ classified.some
    /\ Contains(Lower(classified.val.task_desc), <<"f", "i", "l", "e">>)
    /\ classified.val.result.ok
    /\ classified.val.result.step_type = "form_input"

----------------------------------------------------------------------------
(* C29, C30: the sessions of the live server, under SpecServer *)

\* the step ids of the successful executions in a session, in order
RECURSIVE SucceededIn(_, _)
SucceededIn(log, session_id) ==
    IF log = <<>> THEN <<>>
    ELSE IF Head(log).session_id = session_id
         THEN <<Head(log).step_id>> \o SucceededIn(Tail(log), session_id)
         ELSE SucceededIn(Tail(log), session_id)

\* a sequence without the repetitions of its elements
RECURSIVE FirstOccurrences(_)
FirstOccurrences(ids) ==
    IF ids = <<>> THEN <<>>
    ELSE LET front == FirstOccurrences(SubSeq(ids, 1, Len(ids) - 1))
             last == ids[Len(ids)]
         IN  IF last \in Range(front) THEN front ELSE Append(front, last)

SessionsAreConsistent ==
    \A session_id \in DOMAIN execution_sessions :
        LET session == execution_sessions[session_id]
            done == session.steps_completed
        IN  /\ \A i, j \in 1..Len(done) : i # j => done[i] # done[j]
            /\ Range(done) = DOMAIN session.step_results
            /\ done = FirstOccurrences(SucceededIn(succeeded, session_id))
            /\ session.workflow_id = created_by[session_id]

FailedExecutionStoresNothing ==
    \A c \in Callers :
        (handling[c].some /\ ~handling'[c].some /\ ~response'[c].success)
            => \A session_id \in DOMAIN execution_sessions :
                   /\ session_id \in DOMAIN execution_sessions'
                   /\ execution_sessions'[session_id].steps_completed
                          = execution_sessions[session_id].steps_completed
                   /\ execution_sessions'[session_id].step_results
                          = execution_sessions[session_id].step_results

\* C29: after any sequence of execute-step requests every session has no
\* step id twice in steps_completed, the ids of steps_completed are the keys
\* of step_results, steps_completed is in the order of the first successful
\* execution of each step, and workflow_id is that of the request that
\* created the session; a request whose step execution fails changes
\* neither steps_completed nor step_results of any session.
C29_SessionsStayConsistent ==
    /\ []SessionsAreConsistent
    /\ [][FailedExecutionStoresNothing]_vars

\* a session made by a request for workflow w has completed test_1 and then
\* report_2, the second through a request that names another workflow
C29_Witness ==
    /\ <<"m">> \in DOMAIN execution_sessions
    /\ execution_sessions[<<"m">>].workflow_id = <<"w">>
    /\ execution_sessions[<<"m">>].steps_completed = <<test_1, report_2>>
    /\ DOMAIN execution_sessions[<<"m">>].step_results = {test_1, report_2}
    /\ execution_sessions[<<"m">>].step_results[report_2].type = "llm_processing"

\* C30: two execute-step requests of different callers that both leave
\* session_id out are placed in two different sessions, so that neither
\* caller's session holds the results of the other's steps, however the
\* requests are timed and interleaved.
C30_OmittedSessionIdsGetOwnSessions ==
    \A p, q \in placed :
        (p.caller # q.caller /\ p.omitted /\ q.omitted)
            => p.session_id # q.session_id

====
